---- MODULE Spec2Model ----
(***************************************************************************)
(* Lexio-Online game server (src/unnamed/part_003, the latest revision of  *)
(* src/src/server/index.js): one room, its lobby, the turn/trick state     *)
(* machine, the AI policy and the settlement, as a state machine.          *)
(*                                                                         *)
(* JavaScript arrays are modelled as TLA+ sequences, so every index of the *)
(* source is shifted by one: seat k of the model is room.players[k-1], and *)
(* the source's index 0 is seat 1.  A null seat index is 0, a null or      *)
(* undefined card is NoCard, an undefined number is 0, an undefined card   *)
(* list is the empty sequence and a null hand is NoHand.                   *)
(***************************************************************************)
EXTENDS Integers, Sequences, FiniteSets, TLC

\* ------------------------------------------------------------------ cards

\* const NUMBER_ORDER = [3, ..., 15, 1, 2]
NUMBER_ORDER == <<3, 4, 5, 6, 7, 8, 9, 10, 11, 12, 13, 14, 15, 1, 2>>

\* const SYMBOL_ORDER = ['cloud', 'star', 'moon', 'sun']
SYMBOL_ORDER == <<"cloud", "star", "moon", "sun">>

\* Object.keys(SYMBOLS): the insertion order of the SYMBOLS literal
SYMBOLS == <<"sun", "moon", "star", "cloud">>

\* const HAND_RANKS
SINGLE == 1
PAIR == 2
TRIPLE == 3
STRAIGHT == 4
FLUSH == 5
FULL_HOUSE == 6
FOUR_KIND == 7
STRAIGHT_FLUSH == 8

\* Array.prototype.indexOf on a sequence without duplicates (0-based, -1 if absent)
IndexOf(seq, x) ==
  IF \E i \in 1..Len(seq) : seq[i] = x
    THEN (CHOOSE i \in 1..Len(seq) : seq[i] = x) - 1
    ELSE -1

Card(s, n) == [symbol |-> s, number |-> n]

Range(seq) == {seq[i] : i \in 1..Len(seq)}

\* maxNumber of createDeck's switch, default branch included
MaxNumber(playerCount) ==
  CASE playerCount = 3 -> 9
    [] playerCount = 4 -> 13
    [] playerCount = 5 -> 15
    [] OTHER -> 9

\* a createDeck that always takes the default branch of the switch
createDeck_Default(playerCount) ==
  LET m == 9
  IN [k \in 1..(4 * m) |-> Card(SYMBOLS[((k - 1) \div m) + 1], ((k - 1) % m) + 1)]

\* createDeck: for each symbol of SYMBOLS, numbers 1..maxNumber
createDeck(playerCount) ==
  LET m == MaxNumber(playerCount)
  IN [k \in 1..(4 * m) |-> Card(SYMBOLS[((k - 1) \div m) + 1], ((k - 1) % m) + 1)]

\* a compareCards that compares the numbers as numbers
compareCards_Numeric(card1, card2) ==
  IF card1.number # card2.number
    THEN card1.number - card2.number
    ELSE IndexOf(SYMBOL_ORDER, card1.symbol) - IndexOf(SYMBOL_ORDER, card2.symbol)

\* compareCards(card1, card2)
compareCards(card1, card2) ==
  LET num1Index == IndexOf(NUMBER_ORDER, card1.number)
      num2Index == IndexOf(NUMBER_ORDER, card2.number)
  IN IF num1Index # num2Index
       THEN num1Index - num2Index
       ELSE IndexOf(SYMBOL_ORDER, card1.symbol) - IndexOf(SYMBOL_ORDER, card2.symbol)

\* [...cards].sort(compareCards)[cards.length - 1]: the greatest card of a list
\* (with equal cards any of them, they are the same value)
LastSorted(cards) ==
  CHOOSE c \in Range(cards) : \A d \in Range(cards) : compareCards(c, d) >= 0

\* slice.sort(compareCards) of a slice of distinct cards, given as their set
RECURSIVE SortCards(_)
SortCards(S) ==
  IF S = {} THEN <<>>
  ELSE LET lo == CHOOSE c \in S : \A d \in S : compareCards(c, d) <= 0
       IN <<lo>> \o SortCards(S \ {lo})

\* ------------------------------------------------------------ hand analysis

\* the possibleStraights list of checkStraight(cards, maxNumber), as number sets
possibleStraights(maxNumber) ==
  {{1, 2, 3, 4, 5}, {2, 3, 4, 5, 6}}
    \cup {{start, start + 1, start + 2, start + 3, start + 4} : start \in 3..(maxNumber - 4)}
    \cup (IF maxNumber >= 9 THEN {{6, 7, 8, 9, 1}} ELSE {})
    \cup (IF maxNumber >= 13 THEN {{10, 11, 12, 13, 1}} ELSE {})
    \cup (IF maxNumber >= 15 THEN {{12, 13, 14, 15, 1}} ELSE {})

\* checkStraight: some pattern has all its numbers among the five given numbers
checkStraight(cards, maxNumber) ==
  LET numbers == {cards[i].number : i \in 1..Len(cards)}
  IN Len(cards) = 5 /\ \E straight \in possibleStraights(maxNumber) : straight \subseteq numbers

\* getStraightType
getStraightType(cards) ==
  LET hasOne == \E i \in 1..Len(cards) : cards[i].number = 1
      hasTwo == \E i \in 1..Len(cards) : cards[i].number = 2
      normals == {cards[i].number : i \in 1..Len(cards)} \ {1}
      maxNormal == CHOOSE n \in normals : \A o \in normals : o <= n
  IN CASE hasOne /\ hasTwo -> "one_and_two"
       [] hasTwo /\ ~hasOne -> "two_only"
       [] hasOne /\ ~hasTwo /\ normals # {} /\ maxNormal >= 12 -> "one_at_end"
       [] OTHER -> "normal"

\* cards.find(card => card.number === n): the first such card
FindNumber(cards, n) ==
  cards[CHOOSE i \in 1..Len(cards) :
          cards[i].number = n /\ \A j \in 1..(i - 1) : cards[j].number # n]

\* getStraightHighCard
getStraightHighCard(cards) ==
  LET type == getStraightType(cards)
  IN CASE type = "one_and_two" -> FindNumber(cards, 2)
       [] type = "two_only" -> FindNumber(cards, 2)
       [] type = "one_at_end" -> FindNumber(cards, 1)
       [] OTHER -> LastSorted(cards)

\* type ranks that put 2-3-4-5-6 above 1-2-3-4-5
typeRanks_TwoFirst(type) ==
  CASE type = "one_and_two" -> 3
    [] type = "two_only" -> 4
    [] type = "one_at_end" -> 2
    [] OTHER -> 1

\* typeRanks of compareStraights
typeRanks(type) ==
  CASE type = "one_and_two" -> 4
    [] type = "two_only" -> 3
    [] type = "one_at_end" -> 2
    [] OTHER -> 1

\* Math.max(...cards.map(card => NUMBER_ORDER.indexOf(card.number)))
MaxOrderIndex(cards) ==
  LET idx == {IndexOf(NUMBER_ORDER, cards[i].number) : i \in 1..Len(cards)}
  IN CHOOSE m \in idx : \A o \in idx : o <= m

\* compareStraights
compareStraights(cards1, cards2) ==
  LET type1 == getStraightType(cards1)
      type2 == getStraightType(cards2)
      max1 == MaxOrderIndex(cards1)
      max2 == MaxOrderIndex(cards2)
  IN IF typeRanks(type1) # typeRanks(type2)
       THEN typeRanks(type1) - typeRanks(type2)
       ELSE IF type1 = "normal" /\ max1 # max2
         THEN max1 - max2
         ELSE compareCards(getStraightHighCard(cards1), getStraightHighCard(cards2))

Hand(rank, highCard, number, cards) ==
  [rank |-> rank, highCard |-> highCard, number |-> number, cards |-> cards]

\* an absent card (undefined highCard) and an absent hand (analyzeHand's null)
NoCard == Card("none", 0)
NoHand == Hand(0, NoCard, 0, <<>>)

\* numberCounts[n] of analyzeHand
CountNumber(cards, n) == Cardinality({i \in 1..Len(cards) : cards[i].number = n})

\* an analyzeHand that tests the flush before the straight flush
analyzeHand_FlushFirst(cards) ==
  LET n == Len(cards)
      isFlush == \A i \in 1..n : cards[i].symbol = cards[1].symbol
      isStraight == checkStraight(cards, 15)
      counts == {CountNumber(cards, cards[i].number) : i \in 1..n}
      firstWith(c) == CHOOSE x \in 1..15 :
                        CountNumber(cards, x) = c
                        /\ \A y \in 1..(x - 1) : CountNumber(cards, y) # c
  IN IF n = 0 THEN NoHand
     ELSE IF n = 1 THEN Hand(SINGLE, cards[1], 0, <<>>)
     ELSE IF n = 2 THEN
       (IF cards[1].number = cards[2].number
          THEN Hand(PAIR, LastSorted(cards), cards[1].number, <<>>)
          ELSE NoHand)
     ELSE IF n = 3 THEN
       (IF \A i \in 1..3 : cards[i].number = cards[1].number
          THEN Hand(TRIPLE, cards[1], cards[1].number, <<>>)
          ELSE NoHand)
     ELSE IF n = 5 THEN
       (IF isFlush THEN Hand(FLUSH, LastSorted(cards), 0, <<>>)
        ELSE IF 4 \in counts THEN Hand(FOUR_KIND, NoCard, firstWith(4), <<>>)
        ELSE IF 3 \in counts /\ 2 \in counts
          THEN Hand(FULL_HOUSE, NoCard, firstWith(3), <<>>)
        ELSE IF isStraight THEN Hand(STRAIGHT, getStraightHighCard(cards), 0, cards)
        ELSE NoHand)
     ELSE NoHand

\* analyzeHand(cards): the hand record, or NoHand for null.  The second argument
\* the callers pass (playerCount) is ignored: the function fixes playerCount = 5.
analyzeHand(cards) ==
  LET n == Len(cards)
      isFlush == \A i \in 1..n : cards[i].symbol = cards[1].symbol
      playerCount == 5
      maxNumber == IF playerCount = 3 THEN 9 ELSE IF playerCount = 4 THEN 13 ELSE 15
      isStraight == checkStraight(cards, maxNumber)
      counts == {CountNumber(cards, cards[i].number) : i \in 1..n}
      \* Object.keys(numberCounts).find(...): keys in ascending numeric order
      firstWith(c) == CHOOSE x \in 1..15 :
                        CountNumber(cards, x) = c
                        /\ \A y \in 1..(x - 1) : CountNumber(cards, y) # c
  IN IF n = 0 THEN NoHand
     ELSE IF n = 1 THEN Hand(SINGLE, cards[1], 0, <<>>)
     ELSE IF n = 2 THEN
       (IF cards[1].number = cards[2].number
          THEN Hand(PAIR, LastSorted(cards), cards[1].number, <<>>)
          ELSE NoHand)
     ELSE IF n = 3 THEN
       (IF \A i \in 1..3 : cards[i].number = cards[1].number
          THEN Hand(TRIPLE, cards[1], cards[1].number, <<>>)
          ELSE NoHand)
     ELSE IF n = 5 THEN
       (IF isFlush /\ isStraight
          THEN Hand(STRAIGHT_FLUSH, getStraightHighCard(cards), 0, cards)
        ELSE IF 4 \in counts THEN Hand(FOUR_KIND, NoCard, firstWith(4), <<>>)
        ELSE IF 3 \in counts /\ 2 \in counts
          THEN Hand(FULL_HOUSE, NoCard, firstWith(3), <<>>)
        ELSE IF isFlush THEN Hand(FLUSH, LastSorted(cards), 0, <<>>)
        ELSE IF isStraight THEN Hand(STRAIGHT, getStraightHighCard(cards), 0, cards)
        ELSE NoHand)
     ELSE NoHand

\* compareHands(hand1, hand2)
compareHands(hand1, hand2) ==
  IF hand1 = NoHand \/ hand2 = NoHand THEN 0
  ELSE IF hand1.rank # hand2.rank THEN hand1.rank - hand2.rank
  ELSE CASE hand1.rank \in {SINGLE, FLUSH} -> compareCards(hand1.highCard, hand2.highCard)
         [] hand1.rank \in {STRAIGHT, STRAIGHT_FLUSH} ->
              IF hand1.cards # <<>> /\ hand2.cards # <<>>
                THEN compareStraights(hand1.cards, hand2.cards)
                ELSE compareCards(hand1.highCard, hand2.highCard)
         [] hand1.rank \in {PAIR, TRIPLE, FULL_HOUSE, FOUR_KIND} ->
              LET num1Index == IndexOf(NUMBER_ORDER, hand1.number)
                  num2Index == IndexOf(NUMBER_ORDER, hand2.number)
              IN IF num1Index # num2Index THEN num1Index - num2Index
                 ELSE IF hand1.highCard # NoCard /\ hand2.highCard # NoCard
                   THEN compareCards(hand1.highCard, hand2.highCard)
                   ELSE 0
         [] OTHER -> 0

\* ------------------------------------------------------------------- room

\* sockets that may connect (humans); AI seats get ids -1, -2, ...
MaxHumans == 3
Sockets == 1..MaxHumans

\* the player object pushed by createRoom / joinRoom / addAI
Player(id, isHost, isAI) ==
  [id |-> id, isHost |-> isHost, isAI |-> isAI, hasLeft |-> FALSE, cards |-> <<>>]

\* lastPlay = { cards: [], player: null, hand: null }
EmptyPlay == [cards |-> <<>>, player |-> 0, hand |-> NoHand]

\* createGame(roomId, playerCount)
createGame(playerCount) ==
  [players |-> <<>>,
   gameState |-> "waiting",
   playerCount |-> playerCount,
   currentPlayer |-> 1,
   lastPlay |-> EmptyPlay,
   gameLog |-> <<>>,
   scores |-> <<>>,
   passCount |-> 0,
   winner |-> 0,
   round |-> 1,
   playerPlays |-> <<>>]

\* room.players.findIndex(p => p.id === id): the first such seat, 0 for -1
findIndex(r, id) ==
  IF \E i \in 1..Len(r.players) : r.players[i].id = id
    THEN CHOOSE i \in 1..Len(r.players) :
           r.players[i].id = id /\ \A j \in 1..(i - 1) : r.players[j].id # id
    ELSE 0

\* room.players.filter(p => !p.hasLeft)
ActivePlayers(r) == SelectSeq(r.players, LAMBDA p : ~p.hasLeft)

CLOUD3 == Card("cloud", 3)

\* the loop of getNextActivePlayer from candidate `next` with `attempts` made
RECURSIVE NextActiveFrom(_, _, _, _)
NextActiveFrom(r, currentIndex, next, attempts) ==
  IF attempts >= Len(r.players) THEN currentIndex
  ELSE IF ~r.players[next].hasLeft THEN next
  ELSE NextActiveFrom(r, currentIndex, (next % Len(r.players)) + 1, attempts + 1)

\* a turn advance that does not look at hasLeft
getNextActivePlayer_Plain(r, currentIndex) ==
  (currentIndex % Len(r.players)) + 1

\* getNextActivePlayer(room, currentIndex)
getNextActivePlayer(r, currentIndex) ==
  NextActiveFrom(r, currentIndex, (currentIndex % Len(r.players)) + 1, 0)

\* the numbers of a deck in playing order (NUMBER_ORDER without the absent ones)
DeckNumbers(deck) == SelectSeq(NUMBER_ORDER, LAMBDA n : n <= Len(deck) \div 4)

\* the deck number by number in the order `nums`, the symbols in SYMBOLS order
NumberMajor(deck, nums) ==
  [k \in 1..Len(deck) |-> Card(SYMBOLS[((k - 1) % 4) + 1], nums[((k - 1) \div 4) + 1])]

Reverse(seq) == [k \in 1..Len(seq) |-> seq[Len(seq) + 1 - k]]

\* the outcomes of the shuffle that are tried, each a permutation of the deck:
\* the order createDeck built, the numbers ascending in playing order (3 first),
\* and the numbers descending (2 first, 3 and so cloud 3 last)
ShuffleKinds == {"symbols", "numbers", "numbersDown"}

\* [...deck].sort(() => Math.random() - 0.5), the outcome chosen by `kind`
Shuffle(deck, kind) ==
  IF kind = "numbers" THEN NumberMajor(deck, DeckNumbers(deck))
  ELSE IF kind = "numbersDown" THEN NumberMajor(deck, Reverse(DeckNumbers(deck)))
  ELSE deck

\* the card distribution of startGame for n seats: seat i gets the slice
\* shuffledDeck.slice((i - 1) * cardsPerPlayer, i * cardsPerPlayer), sorted
Deal(n, kind) ==
  LET deck == createDeck(n)
      shuffledDeck == Shuffle(deck, kind)
      cardsPerPlayer == Len(deck) \div n
  IN [i \in 1..n |->
        SortCards({shuffledDeck[k] :
                     k \in ((i - 1) * cardsPerPlayer + 1)..(i * cardsPerPlayer)})]

\* the seat counts a start can meet: at most four AI seats beside the humans
MaxSeats == 4 + MaxHumans

\* the distributions, tabulated by seat count and shuffle
Deals == [n \in 3..MaxSeats |-> [kind \in ShuffleKinds |-> Deal(n, kind)]]

\* startPlayer of startGame: the first seat holding cloud 3, else index 0
StartPlayer(ps) ==
  IF \E i \in 1..Len(ps) : CLOUD3 \in Range(ps[i].cards)
    THEN CHOOSE i \in 1..Len(ps) :
           /\ CLOUD3 \in Range(ps[i].cards)
           /\ \A j \in 1..(i - 1) : CLOUD3 \notin Range(ps[j].cards)
    ELSE 1

\* a startGame that carries the scores over by seat index
startGame_ScoresByIndex(r, kind) ==
  LET kept == IF r.round > 1 THEN ActivePlayers(r) ELSE r.players
      carried == [i \in 1..Len(kept) |->
                    IF i \in DOMAIN r.scores THEN r.scores[i] ELSE 100]
      dealt == [i \in 1..Len(kept) |->
                  [kept[i] EXCEPT !.cards = Deals[Len(kept)][kind][i],
                                  !.hasLeft = FALSE]]
      startPlayer == StartPlayer(dealt)
  IN [r EXCEPT
        !.players = dealt,
        !.gameState = "playing",
        !.currentPlayer = startPlayer,
        !.lastPlay = EmptyPlay,
        !.passCount = 0,
        !.gameLog = << <<"start", startPlayer>> >>,
        !.winner = 0,
        !.playerPlays = [i \in 1..Len(kept) |-> <<>>],
        !.scores = IF r.round = 1
                     THEN [i \in 1..Len(kept) |-> 100]
                     ELSE carried]

\* startGame(roomId) after its length check, the shuffle's outcome being an input
startGame(r, kind) ==
  LET kept == IF r.round > 1 THEN ActivePlayers(r) ELSE r.players
      \* newScores[index] = room.scores[oldIndex], else the default 100
      oldIndex(i) == findIndex(r, kept[i].id)
      carried == [i \in 1..Len(kept) |->
                    IF oldIndex(i) # 0 /\ oldIndex(i) \in DOMAIN r.scores
                      THEN r.scores[oldIndex(i)] ELSE 100]
      dealt == [i \in 1..Len(kept) |->
                  [kept[i] EXCEPT !.cards = Deals[Len(kept)][kind][i],
                                  !.hasLeft = FALSE]]
      startPlayer == StartPlayer(dealt)
  IN [r EXCEPT
        !.players = dealt,
        !.gameState = "playing",
        !.currentPlayer = startPlayer,
        !.lastPlay = EmptyPlay,
        !.passCount = 0,
        !.gameLog = << <<"start", startPlayer>> >>,
        !.winner = 0,
        !.playerPlays = [i \in 1..Len(kept) |-> <<>>],
        !.scores = IF r.round = 1
                     THEN [i \in 1..Len(kept) |-> 100]
                     ELSE carried]

\* a card count that is not doubled for the cards numbered 2
Penalty_NoDoubling(p) ==
  IF p.hasLeft THEN 0 ELSE Len(p.cards)

\* cardCounts[i] of endRound
Penalty(p) ==
  IF p.hasLeft THEN 0
  ELSE Len(p.cards) * 2 ^ Len(SelectSeq(p.cards, LAMBDA c : c.number = 2))

\* the settlement loop of endRound up to seat i
RECURSIVE Settle(_, _, _, _)
Settle(ps, scores, winnerIndex, i) ==
  IF i = 0 THEN scores
  ELSE LET prev == Settle(ps, scores, winnerIndex, i - 1)
       IN IF i # winnerIndex /\ ~ps[i].hasLeft
            THEN [prev EXCEPT ![winnerIndex] = @ + Penalty(ps[i]),
                              ![i] = @ - Penalty(ps[i])]
            ELSE prev

\* a settlement that pays the winner without charging the other seats
endRound_WinnerOnly(r, winnerIndex) ==
  LET settled == Settle(r.players, r.scores, winnerIndex, Len(r.players))
  IN [r EXCEPT
        !.winner = winnerIndex,
        !.scores = [i \in 1..Len(r.scores) |->
                      IF i = winnerIndex THEN settled[i] ELSE r.scores[i]],
        !.gameState = "finished",
        !.round = @ + 1]

\* endRound(room, winnerIndex)
endRound(r, winnerIndex) ==
  [r EXCEPT
     !.winner = winnerIndex,
     !.scores = Settle(r.players, r.scores, winnerIndex, Len(r.players)),
     !.gameState = "finished",
     !.round = @ + 1]

\* --------------------------------------------------------------- AI policy

\* Object.values(numberGroups) restricted to groups of at least `size` cards, each
\* cut to its first `size` cards; integer keys enumerate in ascending order
RECURSIVE NumberGroupsFrom(_, _, _)
NumberGroupsFrom(cards, size, n) ==
  IF n > 15 THEN <<>>
  ELSE LET group == SelectSeq(cards, LAMBDA c : c.number = n)
       IN (IF Len(group) >= size THEN <<SubSeq(group, 1, size)>> ELSE <<>>)
            \o NumberGroupsFrom(cards, size, n + 1)

\* a pair search that takes only the numbers held exactly twice
findAllPairs_Twos(cards) ==
  SelectSeq(NumberGroupsFrom(cards, 2, 1),
            LAMBDA pair : Len(SelectSeq(cards, LAMBDA c : c.number = pair[1].number)) = 2)

\* findAllPairs / findAllTriples
findAllPairs(cards) == NumberGroupsFrom(cards, 2, 1)
findAllTriples(cards) == NumberGroupsFrom(cards, 3, 1)

\* the keys of symbolGroups in insertion order: symbols by first occurrence
RECURSIVE SymbolsSeen(_)
SymbolsSeen(cards) ==
  IF cards = <<>> THEN <<>>
  ELSE LET rest == SymbolsSeen(SubSeq(cards, 1, Len(cards) - 1))
           s == cards[Len(cards)].symbol
       IN IF s \in Range(rest) THEN rest ELSE Append(rest, s)

RECURSIVE FiveOf(_, _)
FiveOf(cards, syms) ==
  IF syms = <<>> THEN <<>>
  ELSE LET group == SelectSeq(cards, LAMBDA c : c.symbol = Head(syms))
       IN (IF Len(group) >= 5 THEN <<SubSeq(group, 1, 5)>> ELSE <<>>)
            \o FiveOf(cards, Tail(syms))

\* findAllFiveCardCombos: the first five cards of every symbol with five or more
findAllFiveCardCombos(cards) ==
  IF Len(cards) >= 5 THEN FiveOf(cards, SymbolsSeen(cards)) ELSE <<>>

\* countStrongHands
countStrongHands(cards) ==
  LET sizeOf(n) == Len(SelectSeq(cards, LAMBDA c : c.number = n))
      symOf(s) == Len(SelectSeq(cards, LAMBDA c : c.symbol = s))
  IN [pairs |-> Cardinality({n \in 1..15 : sizeOf(n) = 2}),
      triples |-> Cardinality({n \in 1..15 : sizeOf(n) >= 3}),
      fours |-> Cardinality({n \in 1..15 : sizeOf(n) >= 4}),
      fiveCard |-> Cardinality({s \in Range(SYMBOLS) : symOf(s) >= 5})]

SetMin(S) == CHOOSE x \in S : \A y \in S : x <= y
SetMax(S) == CHOOSE x \in S : \A y \in S : x >= y

\* analyzeGameState(room, playerIndex)
analyzeGameState(r, playerIndex) ==
  LET mine == Len(r.players[playerIndex].cards)
      opp == {Len(r.players[i].cards) : i \in (1..Len(r.players)) \ {playerIndex}}
  IN [myCardCount |-> mine,
      gamePhase |-> IF mine <= 3 THEN "endgame" ELSE IF mine <= 7 THEN "midgame"
                    ELSE "earlygame",
      isWinning |-> mine <= SetMin(opp),
      isBehind |-> mine > SetMax(opp),
      lastPlayStrength |-> IF r.lastPlay.hand # NoHand THEN r.lastPlay.hand.rank ELSE 0]

\* determineStrategy(room, playerIndex, gameState)
determineStrategy(r, playerIndex, gameState) ==
  LET strongHands == countStrongHands(r.players[playerIndex].cards)
  IN IF gameState.gamePhase = "endgame"
       THEN (IF gameState.isWinning THEN "aggressive_finish" ELSE "desperate_catch_up")
     ELSE IF gameState.gamePhase = "midgame"
       THEN (IF gameState.isWinning THEN "maintain_lead"
             ELSE IF gameState.isBehind THEN "catch_up" ELSE "balanced")
     ELSE IF strongHands.fiveCard > 0 THEN "power_play"
     ELSE IF strongHands.pairs + strongHands.triples > 2 THEN "combo_setup"
     ELSE "conservative"

\* allCombos.sort((a, b) => b.length - a.length)[0]: the first longest combination
FirstLongest(combos) ==
  LET longest == SetMax({Len(combos[i]) : i \in 1..Len(combos)})
  IN combos[SetMin({i \in 1..Len(combos) : Len(combos[i]) = longest})]

\* chooseStrategicOpening: the card lists the random draws can select
chooseStrategicOpening(cards, strategy) ==
  LET lowest == {<<cards[1]>>}
      fiveCombos == findAllFiveCardCombos(cards)
      triples == findAllTriples(cards)
      pairs == findAllPairs(cards)
      allCombos == fiveCombos \o triples \o pairs
      combos == pairs \o triples
  IN IF strategy = "power_play" THEN
       (IF Len(fiveCombos) > 0 THEN Range(fiveCombos)
        ELSE IF Len(triples) > 0 THEN {triples[1]}
        ELSE lowest)
     ELSE IF strategy = "combo_setup" THEN
       (IF Len(pairs) > 0 THEN Range(pairs) ELSE lowest)
     ELSE IF strategy = "aggressive_finish" THEN
       (IF Len(allCombos) > 0 THEN {FirstLongest(allCombos)} ELSE lowest)
     ELSE Range(combos) \cup lowest

\* insertion of play x into a list sorted by compareHands, after its equals
RECURSIVE InsertPlay(_, _)
InsertPlay(sorted, x) ==
  IF sorted = <<>> THEN <<x>>
  ELSE IF compareHands(Head(sorted).hand, x.hand) > 0 THEN <<x>> \o sorted
  ELSE <<Head(sorted)>> \o InsertPlay(Tail(sorted), x)

\* possiblePlays.sort((a, b) => compareHands(a.hand, b.hand)), a stable sort
RECURSIVE SortPlays(_)
SortPlays(plays) ==
  IF plays = <<>> THEN <<>>
  ELSE InsertPlay(SortPlays(SubSeq(plays, 1, Len(plays) - 1)), plays[Len(plays)])

\* findPossibleAiPlays(cards, lastPlay, playerCount)
\* candidate plays that are not compared with the pile
findPossibleAiPlays_Any(cards, lastPlay) ==
  LET targetLength == Len(lastPlay.cards)
      candidates ==
        IF targetLength = 1 THEN [i \in 1..Len(cards) |-> <<cards[i]>>]
        ELSE IF targetLength = 2 THEN findAllPairs(cards)
        ELSE IF targetLength = 3 THEN findAllTriples(cards)
        ELSE IF targetLength = 5 THEN findAllFiveCardCombos(cards)
        ELSE <<>>
      plays == [i \in 1..Len(candidates) |->
                  [cards |-> candidates[i], hand |-> analyzeHand(candidates[i])]]
  IN SortPlays(SelectSeq(plays, LAMBDA p : p.hand # NoHand))

findPossibleAiPlays(cards, lastPlay) ==
  LET targetLength == Len(lastPlay.cards)
      candidates ==
        IF targetLength = 1 THEN [i \in 1..Len(cards) |-> <<cards[i]>>]
        ELSE IF targetLength = 2 THEN findAllPairs(cards)
        ELSE IF targetLength = 3 THEN findAllTriples(cards)
        ELSE IF targetLength = 5 THEN findAllFiveCardCombos(cards)
        ELSE <<>>
      plays == [i \in 1..Len(candidates) |->
                  [cards |-> candidates[i], hand |-> analyzeHand(candidates[i])]]
      beating == SelectSeq(plays, LAMBDA p :
                   p.hand # NoHand /\ compareHands(p.hand, lastPlay.hand) > 0)
  IN SortPlays(beating)

\* chooseBestPlay: the plays the random draw can select
chooseBestPlay(possiblePlays, gameState) ==
  IF Len(possiblePlays) = 1 THEN {possiblePlays[1]}
  ELSE IF gameState.gamePhase = "endgame" THEN {possiblePlays[1]}
  ELSE IF gameState.gamePhase = "midgame" THEN
    (IF gameState.isWinning THEN {possiblePlays[1]}
     ELSE {possiblePlays[(Len(possiblePlays) \div 2) + 1]})
  ELSE {possiblePlays[k] : k \in 1..SetMin({3, Len(possiblePlays)})}

PassDecision == [action |-> "pass", play |-> [cards |-> <<>>, hand |-> NoHand]]
PlayDecision(p) == [action |-> "play", play |-> p]

\* a decision that looks into the opponents' hands: the AI seat may also pass
\* whenever an opponent holds a card numbered 1
makeStrategicDecision_Peeks(r, playerIndex, gameState, strategy) ==
  LET possiblePlays == findPossibleAiPlays(r.players[playerIndex].cards, r.lastPlay)
      best == {PlayDecision(p) : p \in chooseBestPlay(possiblePlays, gameState)}
      peek == \E i \in (1..Len(r.players)) \ {playerIndex} :
                \E c \in Range(r.players[i].cards) : c.number = 1
  IN IF Len(possiblePlays) = 0 \/ peek THEN {PassDecision} \cup best
     ELSE best

\* makeStrategicDecision: the decisions the random draws can produce
makeStrategicDecision(r, playerIndex, gameState, strategy) ==
  LET possiblePlays == findPossibleAiPlays(r.players[playerIndex].cards, r.lastPlay)
      best == {PlayDecision(p) : p \in chooseBestPlay(possiblePlays, gameState)}
      strongPlays == SelectSeq(possiblePlays, LAMBDA p : p.hand.rank >= FLUSH)
  IN IF Len(possiblePlays) = 0 THEN {PassDecision}
     ELSE IF strategy = "aggressive_finish" THEN {PlayDecision(possiblePlays[1])}
     ELSE IF strategy = "desperate_catch_up" THEN best \cup {PassDecision}
     ELSE IF strategy = "maintain_lead" THEN
       (IF gameState.lastPlayStrength >= FLUSH THEN {PassDecision} ELSE {}) \cup best
     ELSE IF strategy = "power_play" THEN
       (IF Len(strongPlays) > 0 THEN {PlayDecision(strongPlays[1])} ELSE {})
         \cup {PassDecision, PlayDecision(possiblePlays[1])}
     ELSE IF Len(possiblePlays) = 1 THEN {PlayDecision(possiblePlays[1]), PassDecision}
     ELSE (IF gameState.lastPlayStrength >= STRAIGHT THEN {PassDecision} ELSE {}) \cup best

\* ------------------------------------------------------------------ state

VARIABLES
  room,        \* the room object of the rooms Map (createGame's fields)
  roomExists,  \* whether the rooms Map still holds the room
  registered,  \* the sockets that have an entry in the players Map
  timers,      \* pending setTimeout callbacks, counted by kind
  out,         \* what the handler that ran last emitted
  calc         \* a card or hand function called on its own: arguments and result

vars == <<room, roomExists, registered, timers, out, calc>>

\* no function called on its own: the game's handlers call them on the way
NoCalc ==
  [fn |-> "none", playerCount |-> 0, cards1 |-> <<>>, cards2 |-> <<>>,
   done |-> FALSE, deck |-> <<>>, hand1 |-> NoHand, hand2 |-> NoHand, value |-> 0]

\* bounds of the exploration: the log entries of a round up to which moves are
\* explored (MaxLog in a first round nobody has left, MaxLogLeft once a seat
\* has left, MaxLogLater in later rounds), up to which departures (MaxLeaveLog)
\* and rejected requests (MaxErrLog) are explored, the pending timers, the
\* rounds started, and the first cards of a hand a selection may start at
MaxLog == 10
MaxLogLeft == 6
MaxLogLater == 2
MaxLeaveLog == 5
MaxErrLog == 2
MaxTimers == 2
MaxRound == 2
MaxPick == 2

\* sets of integers are kept apart from the numbers the source uses
Out(request, error, applied, broadcast) ==
  [request |-> request, error |-> error, applied |-> applied, broadcast |-> broadcast]

NoTimers == [check |-> 0, announce |-> 0, direct |-> 0]
Pending == timers.check + timers.announce + timers.direct
Schedule(kind) == [timers EXCEPT ![kind] = @ + 1]
CanSchedule == Pending < MaxTimers

\* how long the log of a round may grow: MaxLog entries in the first round,
\* MaxLog - 1 when a seat left right after the start, MaxLogLeft after a later
\* departure, MaxLogLater in later rounds
LogBound ==
  IF room.round > 1 THEN MaxLogLater
  ELSE IF Len(room.gameLog) >= 2 /\ room.gameLog[2][1] = "left" THEN MaxLog - 1
  ELSE IF \E i \in 1..Len(room.players) : room.players[i].hasLeft THEN MaxLogLeft
  ELSE MaxLog
CanLog == Len(room.gameLog) < LogBound

\* socket.on('createRoom') by socket 1, the room's first host
CreatedRoom(playerCount) ==
  [createGame(playerCount) EXCEPT !.players = <<Player(1, TRUE, FALSE)>>]

\* the lobby: the state right after createRoom
InitLobby ==
  /\ room = CreatedRoom(3)
  /\ roomExists = TRUE
  /\ registered = {1}
  /\ timers = NoTimers
  /\ out = Out("createRoom", "", TRUE, FALSE)
  /\ calc = NoCalc

\* a lobby filled by joinRoom ("H") and addAI ("A") after createRoom: seat 1 is
\* the creating socket, humans get the sockets 1, 2, ... and AI seats -1, -2, ...
LobbyOf(kinds) ==
  LET nth(i, k) == Cardinality({j \in 1..i : kinds[j] = k})
  IN [CreatedRoom(3) EXCEPT !.players =
        [i \in 1..Len(kinds) |->
           IF kinds[i] = "A" THEN Player(-nth(i, "A"), FALSE, TRUE)
           ELSE Player(nth(i, "H"), i = 1, FALSE)]]

Lobbies == {<<"H", "A", "A">>, <<"H", "H", "A">>}

\* the game: a filled lobby in which nobody has started yet
Init ==
  /\ \E kinds \in Lobbies :
       /\ room = LobbyOf(kinds)
       /\ registered = {room.players[i].id : i \in {j \in 1..Len(kinds) : kinds[j] = "H"}}
  /\ roomExists = TRUE
  /\ timers = NoTimers
  /\ out = Out("joinRoom", "", TRUE, TRUE)
  /\ calc = NoCalc

Seats == 1..Len(room.players)

\* a request that returns before touching the room
Reject(request, error) ==
  /\ Len(room.gameLog) <= MaxErrLog
  /\ out' = Out(request, error, FALSE, FALSE)
  /\ UNCHANGED calc
  /\ UNCHANGED <<room, roomExists, registered, timers>>

\* the socket a new connection gets: ids are opaque, the least free one is used
FreshSocket(s) == s \notin registered /\ \A t \in Sockets : t < s => t \in registered

\* socket.on('joinRoom')
JoinRoom(s) ==
  /\ FreshSocket(s)
  /\ IF ~roomExists THEN Reject("joinRoom", "RoomNotFound")
     ELSE IF Len(SelectSeq(room.players, LAMBDA p : ~p.isAI /\ ~p.hasLeft)) >= room.playerCount
       THEN Reject("joinRoom", "RoomFull")
     ELSE IF room.gameState # "waiting" THEN Reject("joinRoom", "AlreadyStarted")
     ELSE /\ room' = [room EXCEPT !.players = Append(@, Player(s, FALSE, FALSE))]
          /\ registered' = registered \cup {s}
          /\ out' = Out("joinRoom", "", TRUE, TRUE)
          /\ UNCHANGED calc
          /\ UNCHANGED <<roomExists, timers>>

\* the id of a new AI seat: unique, modelled as the least unused negative number
FreshAiId == -(SetMin({k \in 1..5 : \A i \in Seats : room.players[i].id # -k}))

\* players.get(socket.id) and rooms.get(roomId) both succeed
InRoom(s) == s \in registered /\ roomExists

\* room.players.find(p => p.id === socket.id) is a host
IsHost(s) == findIndex(room, s) # 0 /\ room.players[findIndex(room, s)].isHost

\* socket.on('addAI')
AddAI(s) ==
  IF ~InRoom(s) THEN Reject("addAI", "")
  ELSE IF ~IsHost(s) THEN Reject("addAI", "HostOnly")
  ELSE IF Len(room.players) >= 5 THEN Reject("addAI", "MaxPlayers")
  ELSE IF room.gameState # "waiting" THEN Reject("addAI", "NotWaiting")
  ELSE /\ room' = [room EXCEPT !.players = Append(@, Player(FreshAiId, FALSE, TRUE))]
       /\ out' = Out("addAI", "", TRUE, TRUE)
       /\ UNCHANGED calc
       /\ UNCHANGED <<roomExists, registered, timers>>

\* socket.on('removeAI')
RemoveAI(s, aiPlayerId) ==
  IF ~InRoom(s) THEN Reject("removeAI", "")
  ELSE IF ~IsHost(s) THEN Reject("removeAI", "HostOnly")
  ELSE IF room.gameState # "waiting" THEN Reject("removeAI", "NotWaiting")
  ELSE /\ room' = [room EXCEPT !.players = SelectSeq(@, LAMBDA p : p.id # aiPlayerId)]
       /\ out' = Out("removeAI", "", TRUE, TRUE)
       /\ UNCHANGED calc
       /\ UNCHANGED <<roomExists, registered, timers>>

\* a startGame handler without the count of the active seats
StartGame_NoActiveTest(s, kind) ==
  IF ~InRoom(s) THEN Reject("startGame", "")
  ELSE IF ~IsHost(s) THEN Reject("startGame", "HostOnly")
  ELSE IF Len(room.players) < 3 THEN Reject("startGame", "")
  ELSE /\ room.round <= MaxRound
       /\ CanSchedule
       /\ room' = startGame(room, kind)
       /\ timers' = Schedule("announce")
       /\ out' = Out("startGame", "", TRUE, TRUE)
       /\ UNCHANGED calc
       /\ UNCHANGED <<roomExists, registered>>

\* socket.on('startGame'): the checks, startGame(roomId), the gameStarted emits
\* and the 500 ms callback
StartGame(s, kind) ==
  IF ~InRoom(s) THEN Reject("startGame", "")
  ELSE IF ~IsHost(s) THEN Reject("startGame", "HostOnly")
  ELSE IF Len(ActivePlayers(room)) < 3 THEN Reject("startGame", "NeedThreePlayers")
  ELSE IF Len(room.players) < 3 THEN Reject("startGame", "")
  ELSE /\ room.round <= MaxRound
       /\ CanSchedule
       /\ room' = startGame(room, kind)
       /\ timers' = Schedule("announce")
       /\ out' = Out("startGame", "", TRUE, TRUE)
       /\ UNCHANGED calc
       /\ UNCHANGED <<roomExists, registered>>

\* the host hand-over of leaveRoom / disconnect in the lobby, after the player
\* was removed: the first human seat (not left, if `checkLeft`), else seat 1
LobbyHandOver(ps, checkLeft) ==
  LET ok(p) == ~p.isAI /\ (~checkLeft \/ ~p.hasLeft)
      humans == {i \in 1..Len(ps) : ok(ps[i])}
  IN IF humans # {} THEN [ps EXCEPT ![SetMin(humans)].isHost = TRUE]
     ELSE [ps EXCEPT ![1].isHost = TRUE]

\* the host hand-over during a game: to the first human seat that has not left,
\* the leaver keeping the role when there is none
GameHandOver(ps, leaver) ==
  LET humans == {i \in 1..Len(ps) : ~ps[i].isAI /\ ~ps[i].hasLeft}
  IN IF humans # {}
       THEN [[ps EXCEPT ![SetMin(humans)].isHost = TRUE] EXCEPT ![leaver].isHost = FALSE]
       ELSE ps

\* the lobby branch of leaveRoom / disconnect
DepartLobby(s, request, checkLeft) ==
  LET leaver == room.players[findIndex(room, s)]
      rest == SelectSeq(room.players, LAMBDA p : p.id # s)
  IN /\ IF rest = <<>>
          THEN /\ roomExists' = FALSE
               /\ room' = [room EXCEPT !.players = rest]
               /\ out' = Out(request, "", TRUE, FALSE)
               /\ UNCHANGED calc
          ELSE /\ roomExists' = roomExists
               /\ room' = [room EXCEPT !.players =
                             IF leaver.isHost THEN LobbyHandOver(rest, checkLeft) ELSE rest]
               /\ out' = Out(request, "", TRUE, TRUE)
               /\ UNCHANGED calc
     /\ registered' = registered \ {s}
     /\ UNCHANGED timers

\* an in-game departure that leaves the turn where it is
DepartGame_KeepTurn(s, request) ==
  LET idx == findIndex(room, s)
      marked == [room EXCEPT !.players[idx].hasLeft = TRUE,
                             !.gameLog = Append(@, <<"left", idx>>)]
  IN /\ Len(room.gameLog) < MaxLeaveLog
     /\ CanSchedule
     /\ room' = IF room.players[idx].isHost
                  THEN [marked EXCEPT !.players = GameHandOver(marked.players, idx)]
                  ELSE marked
     /\ timers' = Schedule("announce")
     /\ registered' = registered \ {s}
     /\ out' = Out(request, "", TRUE, TRUE)
     /\ UNCHANGED calc
     /\ UNCHANGED roomExists

\* the in-game branch of leaveRoom / disconnect: mark the seat, hand the turn and
\* the host role over, schedule the 100 ms callback
DepartGame(s, request) ==
  LET idx == findIndex(room, s)
      marked == [room EXCEPT !.players[idx].hasLeft = TRUE,
                             !.gameLog = Append(@, <<"left", idx>>)]
      turned == IF room.currentPlayer = idx
                  THEN [marked EXCEPT !.currentPlayer =
                          getNextActivePlayer(marked, marked.currentPlayer)]
                  ELSE marked
  IN /\ Len(room.gameLog) < MaxLeaveLog
     /\ CanSchedule
     /\ room' = IF room.players[idx].isHost
                  THEN [turned EXCEPT !.players = GameHandOver(turned.players, idx)]
                  ELSE turned
     /\ timers' = Schedule("announce")
     /\ registered' = registered \ {s}
     /\ out' = Out(request, "", TRUE, TRUE)
     /\ UNCHANGED calc
     /\ UNCHANGED roomExists

\* socket.on('leaveRoom')
LeaveRoom(s) ==
  IF ~InRoom(s) \/ findIndex(room, s) = 0 THEN Reject("leaveRoom", "")
  ELSE IF room.gameState = "waiting" THEN DepartLobby(s, "leaveRoom", TRUE)
  ELSE DepartGame(s, "leaveRoom")

\* socket.on('disconnect') of a socket that is in the room
Disconnect(s) ==
  /\ InRoom(s)
  /\ findIndex(room, s) # 0
  /\ IF room.gameState = "waiting" THEN DepartLobby(s, "disconnect", FALSE)
     ELSE DepartGame(s, "disconnect")

\* ---------------------------------------------------------------- the game

\* player.cards.filter(card => !selectedCards.find(selected => selected.id === card.id))
RemoveCards(hand, selectedCards) ==
  SelectSeq(hand, LAMBDA card : card \notin Range(selectedCards))

\* what a client submits: a run of up to five neighbouring cards of its sorted
\* hand that starts among its first MaxPick cards, its first six cards, or
\* nothing
Selections(p) ==
  LET cards == p.cards
  IN {<<>>, SubSeq(cards, 1, SetMin({6, Len(cards)}))} \cup
     {SubSeq(cards, a, SetMin({a + n - 1, Len(cards)})) :
        a \in 1..SetMin({MaxPick, Len(cards)}), n \in 1..5}

\* the selections socket s can submit: from its own hand when it has a seat
SelectionsOf(s) ==
  IF findIndex(room, s) # 0 THEN Selections(room.players[findIndex(room, s)]) ELSE {<<>>}

\* a play that hands the turn on also when it ends the round
ApplyPlay_Advances(r, playerIndex, selectedCards, hand) ==
  LET played == [r EXCEPT
                   !.players[playerIndex].cards = RemoveCards(@, selectedCards),
                   !.lastPlay = [cards |-> selectedCards, player |-> playerIndex,
                                 hand |-> hand],
                   !.passCount = 0,
                   !.playerPlays[playerIndex] = Append(@, selectedCards),
                   !.gameLog = Append(@, <<"play", playerIndex>>)]
      next == getNextActivePlayer(played, played.currentPlayer)
  IN IF Len(played.players[playerIndex].cards) = 0
       THEN [endRound(played, playerIndex) EXCEPT !.currentPlayer = next]
       ELSE [played EXCEPT !.currentPlayer = next]

\* a play that never ends the round: the turn moves on after a seat's last card
ApplyPlay_PlaysOn(r, playerIndex, selectedCards, hand) ==
  LET played == [r EXCEPT
                   !.players[playerIndex].cards = RemoveCards(@, selectedCards),
                   !.lastPlay = [cards |-> selectedCards, player |-> playerIndex,
                                 hand |-> hand],
                   !.passCount = 0,
                   !.playerPlays[playerIndex] = Append(@, selectedCards),
                   !.gameLog = Append(@, <<"play", playerIndex>>)]
  IN [played EXCEPT !.currentPlayer = getNextActivePlayer(played, played.currentPlayer)]

\* the part of the playCards handler after its checks
ApplyPlay(r, playerIndex, selectedCards, hand) ==
  LET played == [r EXCEPT
                   !.players[playerIndex].cards = RemoveCards(@, selectedCards),
                   !.lastPlay = [cards |-> selectedCards, player |-> playerIndex,
                                 hand |-> hand],
                   !.passCount = 0,
                   !.playerPlays[playerIndex] = Append(@, selectedCards),
                   !.gameLog = Append(@, <<"play", playerIndex>>)]
  IN IF Len(played.players[playerIndex].cards) = 0
       THEN endRound(played, playerIndex)
       ELSE [played EXCEPT !.currentPlayer = getNextActivePlayer(played, played.currentPlayer)]

\* a playCards handler without the turn test
PlayCards_AnySeat(s, selectedCards) ==
  LET playerIndex == findIndex(room, s)
      hand == analyzeHand(selectedCards)
  IN IF s \notin registered THEN Reject("playCards", "NoPlayerInfo")
     ELSE IF ~roomExists \/ room.gameState # "playing"
       THEN Reject("playCards", "NotPlaying")
     ELSE IF playerIndex = 0 THEN Reject("playCards", "NotInGame")
     ELSE IF room.players[playerIndex].hasLeft THEN Reject("playCards", "HasLeft")
     ELSE IF Len(selectedCards) = 0 THEN Reject("playCards", "NoCards")
     ELSE IF hand = NoHand THEN Reject("playCards", "InvalidCombination")
     ELSE IF room.lastPlay.hand # NoHand /\ Len(selectedCards) # Len(room.lastPlay.cards)
       THEN Reject("playCards", "MustMatchPileSize")
     ELSE IF room.lastPlay.hand # NoHand /\ compareHands(hand, room.lastPlay.hand) <= 0
       THEN Reject("playCards", "MustBeatPile")
     ELSE /\ CanLog
          /\ CanSchedule
          /\ room' = ApplyPlay(room, playerIndex, selectedCards, hand)
          /\ timers' = Schedule("check")
          /\ out' = Out("playCards", "", TRUE, TRUE)
          /\ UNCHANGED calc
          /\ UNCHANGED <<roomExists, registered>>

\* a playCards handler that applies the size test after the first move even
\* when the pile is empty
PlayCards_LeadMustMatch(s, selectedCards) ==
  LET playerIndex == findIndex(room, s)
      hand == analyzeHand(selectedCards)
  IN IF s \notin registered THEN Reject("playCards", "NoPlayerInfo")
     ELSE IF ~roomExists \/ room.gameState # "playing"
       THEN Reject("playCards", "NotPlaying")
     ELSE IF playerIndex = 0 THEN Reject("playCards", "NotInGame")
     ELSE IF playerIndex # room.currentPlayer THEN Reject("playCards", "NotYourTurn")
     ELSE IF room.players[playerIndex].hasLeft THEN Reject("playCards", "HasLeft")
     ELSE IF Len(selectedCards) = 0 THEN Reject("playCards", "NoCards")
     ELSE IF hand = NoHand THEN Reject("playCards", "InvalidCombination")
     ELSE IF Len(room.gameLog) > 1 /\ Len(selectedCards) # Len(room.lastPlay.cards)
       THEN Reject("playCards", "MustMatchPileSize")
     ELSE IF room.lastPlay.hand # NoHand /\ compareHands(hand, room.lastPlay.hand) <= 0
       THEN Reject("playCards", "MustBeatPile")
     ELSE /\ CanLog
          /\ CanSchedule
          /\ room' = ApplyPlay(room, playerIndex, selectedCards, hand)
          /\ timers' = Schedule("check")
          /\ out' = Out("playCards", "", TRUE, TRUE)
          /\ UNCHANGED calc
          /\ UNCHANGED <<roomExists, registered>>

\* a playCards handler that does not ask analyzeHand for a combination
PlayCards_AnyCombination(s, selectedCards) ==
  LET playerIndex == findIndex(room, s)
      hand == analyzeHand(selectedCards)
  IN IF s \notin registered THEN Reject("playCards", "NoPlayerInfo")
     ELSE IF ~roomExists \/ room.gameState # "playing"
       THEN Reject("playCards", "NotPlaying")
     ELSE IF playerIndex = 0 THEN Reject("playCards", "NotInGame")
     ELSE IF playerIndex # room.currentPlayer THEN Reject("playCards", "NotYourTurn")
     ELSE IF room.players[playerIndex].hasLeft THEN Reject("playCards", "HasLeft")
     ELSE IF Len(selectedCards) = 0 THEN Reject("playCards", "NoCards")
     ELSE IF room.lastPlay.hand # NoHand /\ Len(selectedCards) # Len(room.lastPlay.cards)
       THEN Reject("playCards", "MustMatchPileSize")
     ELSE IF room.lastPlay.hand # NoHand /\ compareHands(hand, room.lastPlay.hand) <= 0
       THEN Reject("playCards", "MustBeatPile")
     ELSE /\ CanLog
          /\ CanSchedule
          /\ room' = ApplyPlay(room, playerIndex, selectedCards, hand)
          /\ timers' = Schedule("check")
          /\ out' = Out("playCards", "", TRUE, TRUE)
          /\ UNCHANGED calc
          /\ UNCHANGED <<roomExists, registered>>

\* socket.on('playCards')
PlayCards(s, selectedCards) ==
  LET playerIndex == findIndex(room, s)
      hand == analyzeHand(selectedCards)
  IN IF s \notin registered THEN Reject("playCards", "NoPlayerInfo")
     ELSE IF ~roomExists \/ room.gameState # "playing"
       THEN Reject("playCards", "NotPlaying")
     ELSE IF playerIndex = 0 THEN Reject("playCards", "NotInGame")
     ELSE IF playerIndex # room.currentPlayer THEN Reject("playCards", "NotYourTurn")
     ELSE IF room.players[playerIndex].hasLeft THEN Reject("playCards", "HasLeft")
     ELSE IF Len(selectedCards) = 0 THEN Reject("playCards", "NoCards")
     ELSE IF hand = NoHand THEN Reject("playCards", "InvalidCombination")
     ELSE IF room.lastPlay.hand # NoHand /\ Len(selectedCards) # Len(room.lastPlay.cards)
       THEN Reject("playCards", "MustMatchPileSize")
     ELSE IF room.lastPlay.hand # NoHand /\ compareHands(hand, room.lastPlay.hand) <= 0
       THEN Reject("playCards", "MustBeatPile")
     ELSE /\ CanLog
          /\ CanSchedule
          /\ room' = ApplyPlay(room, playerIndex, selectedCards, hand)
          /\ timers' = Schedule("check")
          /\ out' = Out("playCards", "", TRUE, TRUE)
          /\ UNCHANGED calc
          /\ UNCHANGED <<roomExists, registered>>

\* the pass handler clearing the pile one pass too late
ApplyPass_Late(r, playerIndex) ==
  LET passed == [r EXCEPT !.gameLog = Append(@, <<"pass", playerIndex>>),
                          !.passCount = @ + 1]
      lastCardPlayer == passed.lastPlay.player
      leader == IF lastCardPlayer # 0 THEN lastCardPlayer ELSE 1
  IN IF passed.passCount > Len(ActivePlayers(passed)) - 1
       THEN [passed EXCEPT !.lastPlay = EmptyPlay,
                           !.passCount = 0,
                           !.currentPlayer = leader,
                           !.gameLog = Append(@, <<"leader", leader>>)]
       ELSE [passed EXCEPT !.currentPlayer = getNextActivePlayer(passed, passed.currentPlayer)]

\* a pass that clears the pile and leaves the pass counter as it is
ApplyPass_KeepCount(r, playerIndex) ==
  LET passed == [r EXCEPT !.gameLog = Append(@, <<"pass", playerIndex>>),
                          !.passCount = @ + 1]
      lastCardPlayer == passed.lastPlay.player
      leader == IF lastCardPlayer # 0 THEN lastCardPlayer ELSE 1
  IN IF passed.passCount >= Len(ActivePlayers(passed)) - 1
       THEN [passed EXCEPT !.lastPlay = EmptyPlay,
                           !.currentPlayer = leader,
                           !.gameLog = Append(@, <<"leader", leader>>)]
       ELSE [passed EXCEPT !.currentPlayer = getNextActivePlayer(passed, passed.currentPlayer)]

\* the part of the pass handler after its checks
ApplyPass(r, playerIndex) ==
  LET passed == [r EXCEPT !.gameLog = Append(@, <<"pass", playerIndex>>),
                          !.passCount = @ + 1]
      lastCardPlayer == passed.lastPlay.player
      leader == IF lastCardPlayer # 0 THEN lastCardPlayer ELSE 1
  IN IF passed.passCount >= Len(ActivePlayers(passed)) - 1
       THEN [passed EXCEPT !.lastPlay = EmptyPlay,
                           !.passCount = 0,
                           !.currentPlayer = leader,
                           !.gameLog = Append(@, <<"leader", leader>>)]
       ELSE [passed EXCEPT !.currentPlayer = getNextActivePlayer(passed, passed.currentPlayer)]

\* a pass handler that accepts a pass on an empty pile
Pass_OnEmptyPile(s) ==
  LET playerIndex == findIndex(room, s)
  IN IF ~InRoom(s) THEN Reject("pass", "")
     ELSE IF room.gameState # "playing" THEN Reject("pass", "")
     ELSE IF playerIndex # room.currentPlayer THEN Reject("pass", "")
     ELSE IF room.players[playerIndex].hasLeft THEN Reject("pass", "")
     ELSE /\ Len(room.gameLog) + 1 < LogBound
          /\ CanSchedule
          /\ room' = ApplyPass(room, playerIndex)
          /\ timers' = Schedule("check")
          /\ out' = Out("pass", "", TRUE, TRUE)
          /\ UNCHANGED calc
          /\ UNCHANGED <<roomExists, registered>>

\* socket.on('pass')
Pass(s) ==
  LET playerIndex == findIndex(room, s)
  IN IF ~InRoom(s) THEN Reject("pass", "")
     ELSE IF room.gameState # "playing" THEN Reject("pass", "")
     ELSE IF playerIndex # room.currentPlayer THEN Reject("pass", "")
     ELSE IF room.players[playerIndex].hasLeft THEN Reject("pass", "")
     ELSE IF Len(room.lastPlay.cards) = 0 THEN Reject("pass", "CannotPassOnEmptyPile")
     ELSE /\ Len(room.gameLog) + 1 < LogBound
          /\ CanSchedule
          /\ room' = ApplyPass(room, playerIndex)
          /\ timers' = Schedule("check")
          /\ out' = Out("pass", "", TRUE, TRUE)
          /\ UNCHANGED calc
          /\ UNCHANGED <<roomExists, registered>>

\* executeAiPlay(room, playerIndex, selectedCards, hand) up to its broadcast
executeAiPlay(r, playerIndex, selectedCards, hand) ==
  LET played == [r EXCEPT
                   !.players[playerIndex].cards = RemoveCards(@, selectedCards),
                   !.lastPlay = [cards |-> selectedCards, player |-> playerIndex,
                                 hand |-> hand],
                   !.passCount = 0,
                   !.playerPlays[playerIndex] = Append(@, selectedCards),
                   !.gameLog = Append(@, <<"play", playerIndex>>)]
  IN IF Len(played.players[playerIndex].cards) = 0
       THEN endRound(played, playerIndex)
       ELSE [played EXCEPT !.currentPlayer = getNextActivePlayer(played, played.currentPlayer)]

\* an AI pass that never clears the pile
aiPass_NoClear(r, playerIndex) ==
  LET passed == [r EXCEPT !.gameLog = Append(@, <<"pass", playerIndex>>),
                          !.passCount = @ + 1]
  IN [passed EXCEPT !.currentPlayer = getNextActivePlayer(passed, passed.currentPlayer)]

\* the pass branch of aiPlay up to its broadcast
aiPass(r, playerIndex) ==
  LET passed == [r EXCEPT !.gameLog = Append(@, <<"pass", playerIndex>>),
                          !.passCount = @ + 1]
      lastCardPlayer == passed.lastPlay.player
      leader == IF lastCardPlayer # 0 THEN lastCardPlayer ELSE 1
  IN IF passed.passCount >= Len(ActivePlayers(passed)) - 1
       THEN [passed EXCEPT !.lastPlay = EmptyPlay,
                           !.passCount = 0,
                           !.currentPlayer = leader,
                           !.gameLog = Append(@, <<"leader", leader>>)]
       ELSE [passed EXCEPT !.currentPlayer = getNextActivePlayer(passed, passed.currentPlayer)]

\* the guards of aiPlay(room, playerIndex) before it computes a move
AiCanMove(r, playerIndex) ==
  /\ r.gameState = "playing"
  /\ playerIndex \in 1..Len(r.players)
  /\ r.players[playerIndex].isAI
  /\ Len(r.players[playerIndex].cards) > 0

\* an aiPlay that takes the decision path on an empty pile too
aiPlay_MayPass(r, playerIndex) ==
  LET gameState == analyzeGameState(r, playerIndex)
      strategy == determineStrategy(r, playerIndex, gameState)
  IN {IF decision.action = "play"
        THEN executeAiPlay(r, playerIndex, decision.play.cards, decision.play.hand)
        ELSE aiPass(r, playerIndex) :
        decision \in makeStrategicDecision(r, playerIndex, gameState, strategy)}

\* the rooms aiPlay(room, playerIndex) can leave behind when it moves
aiPlay(r, playerIndex) ==
  LET gameState == analyzeGameState(r, playerIndex)
      strategy == determineStrategy(r, playerIndex, gameState)
      cards == r.players[playerIndex].cards
  IN IF Len(r.lastPlay.cards) = 0
       THEN {executeAiPlay(r, playerIndex, opening, analyzeHand(opening)) :
               opening \in chooseStrategicOpening(cards, strategy)}
       ELSE {IF decision.action = "play"
               THEN executeAiPlay(r, playerIndex, decision.play.cards, decision.play.hand)
               ELSE aiPass(r, playerIndex) :
               decision \in makeStrategicDecision(r, playerIndex, gameState, strategy)}

\* the decisions aiPlay(room, playerIndex) can take: an opening on an empty
\* pile, else what makeStrategicDecision returns
aiDecisions(r, playerIndex) ==
  LET gameState == analyzeGameState(r, playerIndex)
      strategy == determineStrategy(r, playerIndex, gameState)
      cards == r.players[playerIndex].cards
  IN IF Len(r.lastPlay.cards) = 0
       THEN {PlayDecision([cards |-> opening, hand |-> analyzeHand(opening)]) :
               opening \in chooseStrategicOpening(cards, strategy)}
       ELSE makeStrategicDecision(r, playerIndex, gameState, strategy)

\* a call of aiPlay(room, playerIndex) with the timers `left` pending: a move
\* and its follow-up 1000 ms callback, or a silent return
AiPlayCall(playerIndex, left) ==
  IF AiCanMove(room, playerIndex)
    THEN /\ Len(room.gameLog) + 1 < LogBound
         /\ left.check + left.announce + left.direct < MaxTimers
         /\ room' \in aiPlay(room, playerIndex)
         /\ timers' = [left EXCEPT !.check = @ + 1]
         /\ out' = Out("aiPlay", "", TRUE, TRUE)
         /\ UNCHANGED calc
         /\ UNCHANGED <<roomExists, registered>>
    ELSE /\ timers' = left
         /\ out' = Out("aiPlay", "", FALSE, FALSE)
         /\ UNCHANGED calc
         /\ UNCHANGED <<room, roomExists, registered>>

\* the test every AI-turn callback makes before it calls aiPlay
AiTurn(r) ==
  /\ r.gameState = "playing"
  /\ r.currentPlayer \in 1..Len(r.players)
  /\ r.players[r.currentPlayer].isAI
  /\ ~r.players[r.currentPlayer].hasLeft

\* an aiPlay request handler without the turn test
AiPlayRequest_AnySeat(s, playerIndex) ==
  IF ~InRoom(s) THEN Reject("aiPlay", "")
  ELSE IF playerIndex \notin Seats \/ ~room.players[playerIndex].isAI
    THEN Reject("aiPlay", "")
  ELSE IF room.gameState # "playing" THEN Reject("aiPlay", "")
  ELSE AiPlayCall(playerIndex, timers)

\* socket.on('aiPlay') with data.playerIndex
AiPlayRequest(s, playerIndex) ==
  IF ~InRoom(s) THEN Reject("aiPlay", "")
  ELSE IF playerIndex \notin Seats \/ ~room.players[playerIndex].isAI
    THEN Reject("aiPlay", "")
  ELSE IF room.currentPlayer # playerIndex THEN Reject("aiPlay", "")
  ELSE IF room.gameState # "playing" THEN Reject("aiPlay", "")
  ELSE AiPlayCall(playerIndex, timers)

\* the setTimeout callback of playCards, pass, executeAiPlay and aiPlay's pass
CheckTimer ==
  /\ timers.check > 0
  /\ LET left == [timers EXCEPT !.check = @ - 1]
     IN IF AiTurn(room)
          THEN AiPlayCall(room.currentPlayer, left)
          ELSE /\ timers' = left
               /\ out' = Out("aiPlay", "", FALSE, FALSE)
               /\ UNCHANGED calc
               /\ UNCHANGED <<room, roomExists, registered>>

\* the first callback of startGame (500 ms) and of leaveRoom / disconnect
\* (100 ms): a broadcast, and a second timer when an AI seat is on turn
AnnounceTimer ==
  /\ timers.announce > 0
  /\ timers' = [timers EXCEPT !.announce = @ - 1,
                              !.direct = IF AiTurn(room) THEN @ + 1 ELSE @]
  /\ out' = Out("announceTimer", "", FALSE, TRUE)
  /\ UNCHANGED calc
  /\ UNCHANGED <<room, roomExists, registered>>

\* the second callback: aiPlay(room, room.currentPlayer) without a further test
DirectTimer ==
  /\ timers.direct > 0
  /\ AiPlayCall(room.currentPlayer, [timers EXCEPT !.direct = @ - 1])

\* the shuffles tried in a game, and in the lobby
GameShuffles == {"symbols", "numbers"}

Next ==
  \/ \E s \in Sockets, kind \in GameShuffles : StartGame(s, kind)
  \/ \E s \in Sockets : LeaveRoom(s)
  \/ \E s \in Sockets : Disconnect(s)
  \/ \E s \in Sockets :
       \E selectedCards \in SelectionsOf(s) : PlayCards(s, selectedCards)
  \/ \E s \in Sockets : Pass(s)
  \/ \E s \in Sockets, i \in Seats : AiPlayRequest(s, i)
  \/ CheckTimer
  \/ AnnounceTimer
  \/ DirectTimer

Spec == Init /\ [][Next]_vars

\* the lobby alone: joins, AI additions and removals, departures before a start
NextLobby ==
  \/ \E s \in Sockets : JoinRoom(s)
  \/ \E s \in Sockets : AddAI(s)
  \/ \E s \in Sockets, i \in Seats : RemoveAI(s, room.players[i].id) /\ room.players[i].isAI
  \/ \E s \in Sockets : LeaveRoom(s)
  \/ \E s \in Sockets : Disconnect(s)

SpecLobby == InitLobby /\ [][NextLobby]_vars

\* lobbies of every size the lobby operations produce with MaxHumans sockets
StartLobbies ==
  {<<"H", "A">>, <<"H", "H">>, <<"H", "A", "A">>, <<"H", "H", "A">>,
   <<"H", "H", "A", "A">>,
   <<"H", "A", "A", "A", "A">>, <<"H", "A", "A", "A", "A", "H">>,
   <<"H", "A", "A", "A", "A", "H", "H">>}

InitStart ==
  /\ \E kinds \in StartLobbies :
       /\ room = LobbyOf(kinds)
       /\ registered = {room.players[i].id : i \in {j \in 1..Len(kinds) : kinds[j] = "H"}}
  /\ roomExists = TRUE
  /\ timers = NoTimers
  /\ out = Out("joinRoom", "", TRUE, TRUE)
  /\ calc = NoCalc

\* round starts and departures, without moves
NextStart ==
  \/ \E s \in Sockets, kind \in ShuffleKinds : StartGame(s, kind)
  \/ \E s \in Sockets : LeaveRoom(s)
  \/ \E s \in Sockets : Disconnect(s)
  \/ AnnounceTimer

SpecStart == InitStart /\ [][NextStart]_vars

\* what a client can submit as well: selectedCards is taken from the message as
\* it comes, so it may name the highest card of another seat's hand, or one of
\* the client's own cards twice
ForgedSelectionsOf(s) ==
  LET i == findIndex(room, s)
  IN IF i = 0 THEN {}
     ELSE {<<LastSorted(room.players[j].cards)>> :
             j \in {k \in Seats \ {i} : Len(room.players[k].cards) > 0}}
          \cup (IF Len(room.players[i].cards) > 0
                  THEN {<<room.players[i].cards[1], room.players[i].cards[1]>>}
                  ELSE {})

\* the game with clients that submit any cards
NextForged ==
  \/ \E s \in Sockets, kind \in GameShuffles : StartGame(s, kind)
  \/ \E s \in Sockets : LeaveRoom(s)
  \/ \E s \in Sockets : Disconnect(s)
  \/ \E s \in Sockets :
       \E selectedCards \in SelectionsOf(s) \cup ForgedSelectionsOf(s) :
         PlayCards(s, selectedCards)
  \/ \E s \in Sockets : Pass(s)
  \/ \E s \in Sockets, i \in Seats : AiPlayRequest(s, i)
  \/ CheckTimer
  \/ AnnounceTimer
  \/ DirectTimer

SpecForged == Init /\ [][NextForged]_vars

\* lobbies of four and five seats with two and three human seats
RoundLobbies == {<<"H", "H", "A", "A">>, <<"H", "A", "H", "A", "H">>}

HumanSeats(kinds) == {i \in 1..Len(kinds) : kinds[i] = "H"}

\* the last turn of a first round: after the deal `kind` the human seats of
\* `gone` have left, seat i has played its first i cards, and seat w is on turn
\* on an empty pile with one card left
LastTurn(kinds, kind, gone, w) ==
  LET dealt == startGame(LobbyOf(kinds), kind)
      held(i) ==
        LET cards == dealt.players[i].cards
        IN IF i = w THEN <<cards[Len(cards)]>> ELSE SubSeq(cards, i + 1, Len(cards))
      ps == [i \in 1..Len(kinds) |->
               [dealt.players[i] EXCEPT !.cards = held(i), !.hasLeft = i \in gone]]
  IN [dealt EXCEPT !.players = IF 1 \in gone THEN GameHandOver(ps, 1) ELSE ps,
                   !.currentPlayer = w]

\* the room after the play of that last card, which ends the round
RoundOver(kinds, kind, gone, w) ==
  LET r == LastTurn(kinds, kind, gone, w)
  IN ApplyPlay(r, w, r.players[w].cards, analyzeHand(r.players[w].cards))

\* between rounds: a filled lobby, or a first round that has just ended, some
\* but not all of the human seats having left during it
InitRounds ==
  /\ \E kinds \in RoundLobbies :
       \/ /\ room = LobbyOf(kinds)
          /\ registered = {room.players[i].id : i \in HumanSeats(kinds)}
          /\ out = Out("joinRoom", "", TRUE, TRUE)
       \/ \E kind \in GameShuffles, gone \in SUBSET HumanSeats(kinds) :
            \E w \in (1..Len(kinds)) \ gone :
              /\ gone # HumanSeats(kinds)
              /\ room = RoundOver(kinds, kind, gone, w)
              /\ registered = {room.players[i].id : i \in HumanSeats(kinds) \ gone}
              /\ out = Out(IF kinds[w] = "A" THEN "aiPlay" ELSE "playCards", "", TRUE, TRUE)
  /\ roomExists = TRUE
  /\ timers = NoTimers
  /\ calc = NoCalc

\* round starts and departures between and during rounds of four and five seats
SpecRounds == InitRounds /\ [][NextStart]_vars

\* the last turn of a first round, some but not all of the human seats having
\* left during it
InitLastTurn ==
  /\ \E kinds \in RoundLobbies, kind \in GameShuffles :
       \E gone \in SUBSET HumanSeats(kinds) :
         \E w \in (1..Len(kinds)) \ gone :
           /\ gone # HumanSeats(kinds)
           /\ room = LastTurn(kinds, kind, gone, w)
           /\ registered = {room.players[i].id : i \in HumanSeats(kinds) \ gone}
  /\ out = Out("pass", "", TRUE, TRUE)
  /\ roomExists = TRUE
  /\ timers = NoTimers
  /\ calc = NoCalc

\* rounds of four and five seats from their last turn on, ended by a human
\* or an AI seat
SpecLastTurn == InitLastTurn /\ [][Next]_vars

\* ------------------------------------------- the card and hand functions

\* the highest card number of the selections taken from the low cards, and of
\* the cards compared hands are made of
MaxCalcNumber == 6
MaxDuelNumber == 8

\* the subsequences of n elements of seq that start at index `from` or later
RECURSIVE Picks(_, _, _)
Picks(seq, from, n) ==
  IF n = 0 THEN {<<>>}
  ELSE UNION {{<<seq[i]>> \o rest : rest \in Picks(seq, i + 1, n - 1)} :
                i \in from..(Len(seq) - n + 1)}

\* low cards, which every deck holds: the clouds numbered 1..MaxCalcNumber and
\* the cards numbered 1..3 of the other symbols
LowCards ==
  [k \in 1..MaxCalcNumber |-> Card("cloud", k)]
    \o [k \in 1..9 |-> Card(SYMBOL_ORDER[((k - 1) % 3) + 2], ((k - 1) \div 3) + 1)]

\* every selection of 1, 2, 3 or 5 of the given cards
SelectionsFrom(cards) == UNION {Picks(cards, 1, n) : n \in {1, 2, 3, 5}}

\* the card numbers of the deck of a game with playerCount seats, ascending
DeckRanks(playerCount) == [k \in 1..(Len(createDeck(playerCount)) \div 4) |-> k]

\* five cards of five different numbers of the game's deck, for every such set
\* of numbers, once all of one symbol and once of two symbols
RunSelections(playerCount) ==
  UNION {{[k \in 1..5 |-> Card("cloud", nums[k])],
          [k \in 1..5 |-> Card(IF k = 1 THEN "sun" ELSE "cloud", nums[k])]} :
           nums \in Picks(DeckRanks(playerCount), 1, 5)}

\* the cards compared hands are made of: the cards numbered 3 and 4 of every
\* symbol and the clouds numbered 5..MaxDuelNumber
DuelCards ==
  [k \in 1..8 |-> Card(SYMBOL_ORDER[((k - 1) % 4) + 1], ((k - 1) \div 4) + 3)]
    \o [k \in 1..(MaxDuelNumber - 4) |-> Card("cloud", k + 4)]

\* the selections of the given cards that analyzeHand accepts
Accepted(cards) == {sel \in SelectionsFrom(cards) : analyzeHand(sel) # NoHand}

\* the pairs of hands of one category among the given hands
Duels(hands) ==
  UNION {{<<cards1, cards2>> :
            cards2 \in {h \in hands : analyzeHand(h).rank = analyzeHand(cards1).rank}} :
           cards1 \in hands}

\* a call before it is made
Call(fn, playerCount, cards1, cards2) ==
  [NoCalc EXCEPT !.fn = fn, !.playerCount = playerCount,
                 !.cards1 = cards1, !.cards2 = cards2]

\* the calls made: createDeck for a seat count, compareCards for two cards of
\* the largest deck, analyzeHand (called with the room's seat count) for a
\* selection, compareHands for two accepted selections of one category
InitCards ==
  /\ calc \in
       {Call("createDeck", n, <<>>, <<>>) : n \in 3..MaxSeats}
         \cup {Call("compareCards", 5, <<c1>>, <<c2>>) :
                 c1 \in Range(createDeck(5)), c2 \in Range(createDeck(5))}
         \cup {Call("analyzeHand", 3, cards, <<>>) : cards \in SelectionsFrom(LowCards)}
         \cup UNION {{Call("analyzeHand", n, cards, <<>>) : cards \in RunSelections(n)} :
                       n \in {3, 4, 5}}
         \cup {Call("compareHands", 5, duel[1], duel[2]) : duel \in Duels(Accepted(DuelCards))}
  /\ room = CreatedRoom(3)
  /\ roomExists = FALSE
  /\ registered = {}
  /\ timers = NoTimers
  /\ out = Out("none", "", FALSE, FALSE)

\* the call of fn is still to be made
ToCall(fn) == calc.fn = fn /\ ~calc.done

CreateDeckCall ==
  /\ ToCall("createDeck")
  /\ calc' = [calc EXCEPT !.done = TRUE, !.deck = createDeck(calc.playerCount)]
  /\ UNCHANGED <<room, roomExists, registered, timers, out>>

CompareCardsCall ==
  /\ ToCall("compareCards")
  /\ calc' = [calc EXCEPT !.done = TRUE,
                          !.value = compareCards(calc.cards1[1], calc.cards2[1])]
  /\ UNCHANGED <<room, roomExists, registered, timers, out>>

AnalyzeHandCall ==
  /\ ToCall("analyzeHand")
  /\ calc' = [calc EXCEPT !.done = TRUE, !.hand1 = analyzeHand(calc.cards1)]
  /\ UNCHANGED <<room, roomExists, registered, timers, out>>

\* compareHands(analyzeHand(cards1), analyzeHand(cards2)), as playCards and
\* findPossibleAiPlays call it
CompareHandsCall ==
  /\ ToCall("compareHands")
  /\ LET hand1 == analyzeHand(calc.cards1)
         hand2 == analyzeHand(calc.cards2)
     IN calc' = [calc EXCEPT !.done = TRUE, !.hand1 = hand1, !.hand2 = hand2,
                             !.value = compareHands(hand1, hand2)]
  /\ UNCHANGED <<room, roomExists, registered, timers, out>>

NextCards ==
  \/ CreateDeckCall
  \/ CompareCardsCall
  \/ AnalyzeHandCall
  \/ CompareHandsCall

SpecCards == InitCards /\ [][NextCards]_vars

\* the calls made: compareHands for every two runs of one category that
\* analyzeHand accepts among five cards of five different numbers of the deck
\* of a game of 3, 4 or 5 seats; the runs are all clouds, all suns, or moons
\* with one star
InitRuns ==
  /\ \E n \in {3, 4, 5} :
       LET dress(nums) ==
             {[k \in 1..5 |-> Card("cloud", nums[k])], [k \in 1..5 |-> Card("sun", nums[k])]}
               \cup {[k \in 1..5 |-> Card(IF k = j THEN "star" ELSE "moon", nums[k])] :
                       j \in 1..5}
           runs == {cards \in UNION {dress(nums) : nums \in Picks(DeckRanks(n), 1, 5)} :
                      analyzeHand(cards).rank \in {STRAIGHT, STRAIGHT_FLUSH}}
       IN calc \in {Call("compareHands", n, duel[1], duel[2]) : duel \in Duels(runs)}
  /\ room = CreatedRoom(3)
  /\ roomExists = FALSE
  /\ registered = {}
  /\ timers = NoTimers
  /\ out = Out("none", "", FALSE, FALSE)

SpecRuns == InitRuns /\ [][CompareHandsCall]_vars

\* ------------------------------------------------------- turn advancement

\* a round of n human seats of which those of `gone` have left, seat
\* currentIndex being on turn
TurnRoom(n, gone, currentIndex) ==
  [createGame(n) EXCEPT
     !.players = [k \in 1..n |-> [Player(k, k = 1, FALSE) EXCEPT !.hasLeft = k \in gone]],
     !.gameState = "playing",
     !.currentPlayer = currentIndex]

\* the calls made: getNextActivePlayer(room, currentIndex) for every seat index
\* of rooms of 3 to MaxSeats seats with any seats marked as left
InitTurn ==
  /\ \E n \in 3..MaxSeats :
       \E gone \in SUBSET (1..n), currentIndex \in 1..n :
         /\ room = TurnRoom(n, gone, currentIndex)
         /\ registered = (1..n) \ gone
         /\ calc = Call("getNextActivePlayer", n, <<>>, <<>>)
  /\ roomExists = TRUE
  /\ timers = NoTimers
  /\ out = Out("none", "", FALSE, FALSE)

GetNextActivePlayerCall ==
  /\ ToCall("getNextActivePlayer")
  /\ calc' = [calc EXCEPT !.done = TRUE,
                          !.value = getNextActivePlayer(room, room.currentPlayer)]
  /\ UNCHANGED <<room, roomExists, registered, timers, out>>

SpecTurn == InitTurn /\ [][GetNextActivePlayerCall]_vars

\* ----------------------------------------------------------------- claims

ActiveSeats(r) == {i \in 1..Len(r.players) : ~r.players[i].hasLeft}

\* the step appended one entry of this kind for seat i to the log
Logged(kind, i) ==
  /\ Len(room'.gameLog) > Len(room.gameLog)
  /\ SubSeq(room'.gameLog, 1, Len(room.gameLog)) = room.gameLog
  /\ room'.gameLog[Len(room.gameLog) + 1] = <<kind, i>>

PlayApplied == \E i \in Seats : Logged("play", i)
PassApplied == \E i \in Seats : Logged("pass", i)

\* the first active seat after seat x in cyclic order
NextActiveSeat(r, x) ==
  LET n == Len(r.players)
      dist(i) == IF i > x THEN i - x ELSE i - x + n
  IN CHOOSE i \in ActiveSeats(r) : \A j \in ActiveSeats(r) : dist(i) <= dist(j)

\* the passes at the end of the first n log entries
RECURSIVE PassRun(_, _)
PassRun(log, n) ==
  IF n > 0 /\ log[n][1] = "pass" THEN 1 + PassRun(log, n - 1) ELSE 0

RECURSIVE SumSeq(_)
SumSeq(seq) == IF seq = <<>> THEN 0 ELSE Head(seq) + SumSeq(Tail(seq))

\* C1: while the game is playing and some seat is active, the seat at the
\* current turn index is an active seat
C1_TurnOnActiveSeat ==
  (room.gameState = "playing" /\ ActiveSeats(room) # {})
    => room.currentPlayer \in ActiveSeats(room)

\* C2: the consecutive-pass counter is strictly less than the number of
\* active seats
C2_PassCountBelowActive ==
  room.passCount < Cardinality(ActiveSeats(room))

\* C3: when the log ends with a play by seat S followed by k passes and nothing
\* else, then with k = activeSeatCount - 1 (at least one pass) the pile is
\* empty, the pass counter is 0 and the turn is on S, and with fewer passes the
\* pile still holds S's play and the turn is on the next active seat after the
\* seat that moved last
C3_PassCycle ==
  LET log == room.gameLog
      cleared == Len(log) > 0 /\ log[Len(log)][1] = "leader"
      end == IF cleared THEN Len(log) - 1 ELSE Len(log)
      k == PassRun(log, end)
      at == end - k
      S == log[at][2]
      n == Cardinality(ActiveSeats(room))
  IN (room.gameState = "playing" /\ at >= 1 /\ log[at][1] = "play") =>
       /\ (k >= 1 /\ k = n - 1) =>
            /\ cleared
            /\ room.lastPlay = EmptyPlay
            /\ room.passCount = 0
            /\ room.currentPlayer = S
       /\ k < n - 1 =>
            /\ ~cleared
            /\ room.lastPlay.player = S
            /\ room.lastPlay.cards = room.playerPlays[S][Len(room.playerPlays[S])]
            /\ room.passCount = k
            /\ room.currentPlayer = NextActiveSeat(room, log[end][2])

C3_Witness ==
  /\ room.gameState = "playing"
  /\ Len(room.gameLog) >= 4
  /\ room.gameLog[Len(room.gameLog)][1] = "leader"
  /\ room.gameLog[Len(room.gameLog) - 1][1] = "pass"
  /\ room.gameLog[Len(room.gameLog) - 2][1] = "pass"
  /\ room.gameLog[Len(room.gameLog) - 3][1] = "play"
  /\ room.currentPlayer = room.gameLog[Len(room.gameLog) - 3][2]

\* C4: at every round end the score changes of all seats sum to zero, the
\* winner gains exactly what the other active seats lose, and no other score
\* moves
C4_ZeroSum ==
  [][(room.gameState = "playing" /\ room'.gameState = "finished") =>
       LET delta == [i \in Seats |-> room'.scores[i] - room.scores[i]]
           w == room'.winner
           losers == {i \in ActiveSeats(room) : i # w}
           lost == [i \in Seats |-> IF i \in losers THEN -delta[i] ELSE 0]
       IN /\ SumSeq(delta) = 0
          /\ delta[w] = SumSeq(lost)
          /\ \A i \in Seats : i \notin losers /\ i # w => delta[i] = 0
          /\ \A i \in losers : delta[i] = -Penalty(room'.players[i])]_vars

C4_Witness ==
  /\ room.gameState = "finished"
  /\ room.scores[room.winner] > 100
  /\ \E i \in Seats : /\ room.players[i].hasLeft
                      /\ Len(room.players[i].cards) > 0
                      /\ room.scores[i] = 100
  /\ \E i \in Seats : /\ i # room.winner
                      /\ room.scores[i] < 100
                      /\ \E c \in Range(room.players[i].cards) : c.number = 2

\* C5: right after a successful round start the seat on turn holds the card
\* (cloud, 3), the pile is empty and the pass counter is 0
C5_StartOnCloud3 ==
  (out.request = "startGame" /\ out.applied) =>
    /\ CLOUD3 \in Range(room.players[room.currentPlayer].cards)
    /\ room.lastPlay = EmptyPlay
    /\ room.passCount = 0

\* C6: a play applied on a non-empty pile has as many cards as the pile and a
\* hand that compareHands ranks above the pile's hand
C6_PlayBeatsPile ==
  [][(PlayApplied /\ Len(room.lastPlay.cards) > 0) =>
       /\ Len(room'.lastPlay.cards) = Len(room.lastPlay.cards)
       /\ room'.lastPlay.hand = analyzeHand(room'.lastPlay.cards)
       /\ compareHands(analyzeHand(room'.lastPlay.cards),
                       analyzeHand(room.lastPlay.cards)) > 0]_vars

C6_Witness ==
  /\ Len(room.gameLog) >= 2
  /\ room.gameLog[Len(room.gameLog)][1] = "play"
  /\ room.gameLog[Len(room.gameLog) - 1][1] \in {"play", "pass"}
  /\ out.request \in {"playCards", "aiPlay"}
  /\ out.applied

\* what the rules reject: a play by a seat that is not on turn, of cards that
\* are no combination, of another size than the pile, or not above the pile
IllegalPlay(s, selectedCards) ==
  LET hand == analyzeHand(selectedCards)
  IN \/ findIndex(room, s) # room.currentPlayer
     \/ hand = NoHand
     \/ /\ Len(room.lastPlay.cards) > 0
        /\ \/ Len(selectedCards) # Len(room.lastPlay.cards)
           \/ compareHands(hand, room.lastPlay.hand) <= 0

\* what the rules reject: a pass by a seat that is not on turn or a pass on an
\* empty pile
IllegalPass(s) ==
  \/ findIndex(room, s) # room.currentPlayer
  \/ Len(room.lastPlay.cards) = 0

\* the step changed the room, the registry or the pending timers, or was
\* broadcast
Touched == ~(UNCHANGED <<room, roomExists, registered, timers>>) \/ out'.broadcast

\* C7: a rejected play or pass leaves the room as it was, is not broadcast and
\* schedules no AI trigger.  Stated from the other side: a playCards step that
\* touches anything is the handler's step for the cards it put on the pile, and
\* the rules do not reject them; a pass step that touches anything is not a
\* pass the rules reject; and a step the handler answers as rejected touches
\* nothing
C7_RejectionChangesNothing ==
  [][/\ (out'.request = "playCards" /\ Touched) =>
          \E s \in Sockets :
            /\ room'.lastPlay.cards \in SelectionsOf(s)
            /\ PlayCards(s, room'.lastPlay.cards)
            /\ ~IllegalPlay(s, room'.lastPlay.cards)
     /\ \A s \in Sockets :
          (out'.request = "pass" /\ Touched /\ Pass(s)) => ~IllegalPass(s)
     /\ (out'.request \in {"playCards", "pass"} /\ ~out'.applied) => ~Touched]_vars

C7_Witness ==
  /\ out.request = "playCards"
  /\ ~out.applied
  /\ out.error = "MustBeatPile"
  /\ room.gameState = "playing"

\* C8: every rejected play or pass is answered with an error that names the
\* failed rule
C8_RejectionNamesRule ==
  [][\A s \in Sockets :
       (InRoom(s) /\ findIndex(room, s) # 0 /\ room.gameState = "playing") =>
         /\ \A selectedCards \in SelectionsOf(s) :
              (out'.request = "playCards" /\ ~out'.applied /\ PlayCards(s, selectedCards)) =>
                out'.error \in {"NotYourTurn", "InvalidCombination", "NoCards",
                                "MustMatchPileSize", "MustBeatPile"}
         /\ (out'.request = "pass" /\ ~out'.applied /\ Pass(s)) =>
              out'.error \in {"NotYourTurn", "CannotPassOnEmptyPile"}]_vars

\* C9: a pass is applied, and the pass counter grows, only on a non-empty
\* pile; a human pass on an empty pile changes nothing and an AI move on an
\* empty pile is a play of at least one card
C9_NoPassOnEmptyPile ==
  [][/\ (PassApplied \/ room'.passCount > room.passCount) => Len(room.lastPlay.cards) > 0
     /\ \A s \in Sockets :
          (out'.request = "pass" /\ Len(room.lastPlay.cards) = 0 /\ Pass(s)) =>
            UNCHANGED room
     /\ (out'.request = "aiPlay" /\ out'.applied /\ Len(room.lastPlay.cards) = 0) =>
          /\ Logged("play", room.currentPlayer)
          /\ Len(room'.lastPlay.cards) >= 1
          /\ room'.passCount = 0]_vars

C9_Witness ==
  /\ out.request = "aiPlay"
  /\ out.applied
  /\ Len(room.gameLog) >= 3
  /\ room.gameLog[Len(room.gameLog)][1] = "play"
  /\ room.gameLog[Len(room.gameLog) - 1][1] = "leader"
  /\ room.players[room.gameLog[Len(room.gameLog)][2]].isAI

\* an AI trigger for seat i is stale
Stale(i) ==
  \/ room.gameState # "playing"
  \/ i # room.currentPlayer
  \/ ~room.players[room.currentPlayer].isAI

\* the step changed the room or raised an error
Acted == room' # room \/ out'.error # ""

\* C10: a stale AI trigger changes nothing and raises no error (no step that
\* changes the room or raises an error is the step of a stale aiPlay request or
\* of a stale timer), and every AI move is a move of the seat that is on turn
\* when the trigger fires
C10_StaleTriggerDiscarded ==
  [][/\ \A s \in Sockets, i \in Seats :
          (out'.request = "aiPlay" /\ Acted /\ Stale(i)) => ~AiPlayRequest(s, i)
     /\ (out'.request = "aiPlay" /\ Acted /\ Stale(room.currentPlayer)) =>
          ~(CheckTimer \/ DirectTimer)
     /\ (out'.request = "aiPlay" /\ room' # room) =>
          /\ ~Stale(room.currentPlayer)
          /\ Logged("play", room.currentPlayer) \/ Logged("pass", room.currentPlayer)
          /\ \A i \in Seats :
               i # room.currentPlayer => room'.players[i] = room.players[i]]_vars

C10_Witness ==
  /\ out.request = "aiPlay"
  /\ ~out.applied
  /\ room.gameState = "playing"
  /\ ~room.players[room.currentPlayer].isAI
  /\ Len(room.gameLog) >= 2

\* a view that copies every seat's card list
sanitizeRoom_OpenHands(r, requesterId) ==
  [players |-> [i \in 1..Len(r.players) |->
                  [id |-> r.players[i].id,
                   cardCount |-> Len(r.players[i].cards),
                   cards |-> r.players[i].cards,
                   isHost |-> r.players[i].isHost,
                   isAI |-> r.players[i].isAI,
                   hasLeft |-> r.players[i].hasLeft]],
   gameState |-> r.gameState,
   playerCount |-> r.playerCount,
   currentPlayer |-> r.currentPlayer,
   lastPlay |-> r.lastPlay,
   gameLog |-> r.gameLog,
   scores |-> r.scores,
   passCount |-> r.passCount,
   winner |-> IF r.winner = 0 THEN Player(0, FALSE, FALSE) ELSE r.players[r.winner],
   round |-> r.round,
   playerPlays |-> r.playerPlays]

\* sanitizeRoom(room, requesterId): the spread of the room's fields with the
\* players list replaced; room.winner is the winning seat's player object
\* itself (endRound stores the reference), here the seat's record, and the
\* null winner and the null requester are the id 0 no seat has
sanitizeRoom(r, requesterId) ==
  [players |-> [i \in 1..Len(r.players) |->
                  [id |-> r.players[i].id,
                   cardCount |-> Len(r.players[i].cards),
                   cards |-> IF r.players[i].id = requesterId
                               THEN r.players[i].cards ELSE <<>>,
                   isHost |-> r.players[i].isHost,
                   isAI |-> r.players[i].isAI,
                   hasLeft |-> r.players[i].hasLeft]],
   gameState |-> r.gameState,
   playerCount |-> r.playerCount,
   currentPlayer |-> r.currentPlayer,
   lastPlay |-> r.lastPlay,
   gameLog |-> r.gameLog,
   scores |-> r.scores,
   passCount |-> r.passCount,
   winner |-> IF r.winner = 0 THEN Player(0, FALSE, FALSE) ELSE r.players[r.winner],
   round |-> r.round,
   playerPlays |-> r.playerPlays]

\* another card than c: the next number (1 after 15) of the next symbol
Disguise(c) ==
  Card(CASE c.symbol = "cloud" -> "star" [] c.symbol = "star" -> "moon"
         [] c.symbol = "moon" -> "sun" [] OTHER -> "cloud",
       (c.number % 15) + 1)

\* the room with every hand the requester does not own replaced, card by card,
\* by other cards: same counts, other identities
Concealed(r, requesterId) ==
  [r EXCEPT !.players =
     [i \in 1..Len(r.players) |->
        IF r.players[i].id = requesterId THEN r.players[i]
        ELSE [r.players[i] EXCEPT !.cards =
                [k \in 1..Len(r.players[i].cards) |-> Disguise(r.players[i].cards[k])]]]]

\* the requesters a view is built for: the human seats that have not left
\* (broadcastGameUpdate, the handlers' own socket.id), and null
Requesters ==
  {room.players[i].id : i \in {k \in Seats : ~room.players[k].isAI /\ ~room.players[k].hasLeft}}
    \cup {0}

\* every card a view shows, in whatever field
ViewCards(view) ==
  UNION {Range(view.players[i].cards) : i \in 1..Len(view.players)}
    \cup Range(view.winner.cards)
    \cup Range(view.lastPlay.cards)
    \cup UNION {UNION {Range(view.playerPlays[i][k]) : k \in 1..Len(view.playerPlays[i])} :
                  i \in 1..Len(view.playerPlays)}

\* C11: the view built for a requester does not depend on the identities of
\* the cards the other seats hold, whatever field of the view is looked at:
\* replacing those hands by other cards of the same count gives the same view,
\* and no card of another seat's hand occurs anywhere in the view
C11_ViewHidesOtherHands ==
  \A requesterId \in Requesters :
    LET view == sanitizeRoom(room, requesterId)
        hidden == UNION {Range(room.players[i].cards) :
                           i \in {k \in Seats : room.players[k].id # requesterId}}
    IN /\ sanitizeRoom(Concealed(room, requesterId), requesterId) = view
       /\ hidden \cap ViewCards(view) = {}

\* a finished round whose winner is not the requester, while the requester and
\* a third seat still hold cards and cards lie on the pile
C11_Witness ==
  /\ room.gameState = "finished"
  /\ room.winner # 0
  /\ Len(room.lastPlay.cards) > 0
  /\ \E i, k \in Seats :
       /\ i # k /\ i # room.winner /\ k # room.winner
       /\ room.players[i].id \in registered
       /\ Len(room.players[i].cards) > 0
       /\ Len(room.players[k].cards) > 0

\* C12: a round start requested by a socket of the room while fewer than three
\* seats are active is answered with an error and changes nothing: no cards
\* are dealt, no seat is added, and game state, turn, pile and scores stay
C12_StartNeedsThreeActive ==
  [][\A s \in Sockets, kind \in ShuffleKinds :
       (/\ out'.request = "startGame"
        /\ InRoom(s)
        /\ Cardinality(ActiveSeats(room)) < 3
        /\ StartGame(s, kind)) =>
         /\ out'.error # ""
         /\ ~out'.applied
         /\ ~out'.broadcast
         /\ UNCHANGED <<room, roomExists, registered, timers>>]_vars

\* the host's start request refused during a round that seats have left
C12_Witness ==
  /\ out.request = "startGame"
  /\ out.error = "NeedThreePlayers"
  /\ room.gameState = "playing"
  /\ Cardinality(ActiveSeats(room)) = 2
  /\ Len(room.players) >= 3

\* C13: a round start takes effect only with 3, 4 or 5 seats; with any other
\* seat count the lobby operations produce it fails and deals nothing
C13_SeatCountChecked ==
  (out.request = "startGame" /\ out.applied) => Len(room.players) \in {3, 4, 5}

\* the highest rank of the deck for 3, 4 and 5 seats
maxRank(n) == CASE n = 3 -> 9 [] n = 4 -> 13 [] n = 5 -> 15 [] OTHER -> 0

Suits == {"cloud", "star", "moon", "sun"}

\* C14: for 3, 4 and 5 seats createDeck returns 4 x maxRank cards (36, 52,
\* 60): every pair of a suit and a rank in 1..maxRank exactly once and no
\* other card
C14_DeckComplete ==
  (calc.fn = "createDeck" /\ calc.done /\ calc.playerCount \in {3, 4, 5}) =>
    LET deck == calc.deck
        m == maxRank(calc.playerCount)
    IN /\ Len(deck) = 4 * m
       /\ Len(deck) = CASE calc.playerCount = 3 -> 36
                        [] calc.playerCount = 4 -> 52
                        [] OTHER -> 60
       /\ \A su \in Suits, r \in 1..m :
            Cardinality({k \in 1..Len(deck) : deck[k] = Card(su, r)}) = 1
       /\ \A k \in 1..Len(deck) : deck[k].symbol \in Suits /\ deck[k].number \in 1..m

C14_Witness ==
  /\ calc.fn = "createDeck"
  /\ calc.done
  /\ calc.playerCount = 4
  /\ Len(calc.deck) = 52
  /\ Card("moon", 13) \in Range(calc.deck)

\* the position of a rank in the playing order 3 < 4 < ... < 15 < 1 < 2, and
\* of a suit in cloud < star < moon < sun
rankOrder(r) == IF r >= 3 THEN r - 3 ELSE r + 12
suitOrder(su) ==
  CASE su = "cloud" -> 0 [] su = "star" -> 1 [] su = "moon" -> 2 [] OTHER -> 3

Sign(x) == IF x > 0 THEN 1 ELSE IF x < 0 THEN -1 ELSE 0

\* C15: compareCards is a strict total order on the cards of a deck: the
\* result is 0 only for the same card, the opposite comparison has the
\* opposite sign, the order is transitive, a lower rank in the playing order
\* is below whatever the suits, and equal ranks are ordered by suit
C15_CardOrderTotal ==
  (calc.fn = "compareCards" /\ calc.done) =>
    LET a == calc.cards1[1]
        b == calc.cards2[1]
        v == calc.value
    IN /\ (v = 0) <=> (a = b)
       /\ Sign(compareCards(b, a)) = -Sign(v)
       /\ \A c \in Range(createDeck(5)) :
            (v < 0 /\ compareCards(b, c) < 0) => compareCards(a, c) < 0
       /\ rankOrder(a.number) < rankOrder(b.number) => v < 0
       /\ (a.number = b.number /\ suitOrder(a.symbol) < suitOrder(b.symbol)) => v < 0

\* the sun 15 was compared with the cloud 1 and found below it
C15_Witness ==
  /\ calc.fn = "compareCards"
  /\ calc.done
  /\ calc.cards1 = <<Card("sun", 15)>>
  /\ calc.cards2 = <<Card("cloud", 1)>>
  /\ calc.value < 0

\* other orders a hand's cards can be listed in
Relistings(cards) ==
  {cards, Reverse(cards), [k \in 1..Len(cards) |-> cards[(k % Len(cards)) + 1]]}

\* C16: for two hands of one category compareHands is 0 only when both hands
\* are the same cards, the opposite comparison has the opposite sign, and the
\* result does not depend on the order the cards of a hand are listed in
C16_HandOrderStrict ==
  (calc.fn = "compareHands" /\ calc.done) =>
    /\ calc.value = 0 => Range(calc.cards1) = Range(calc.cards2)
    /\ Sign(compareHands(calc.hand2, calc.hand1)) = -Sign(calc.value)
    /\ \A cards1 \in Relistings(calc.cards1), cards2 \in Relistings(calc.cards2) :
         Sign(compareHands(analyzeHand(cards1), analyzeHand(cards2))) = Sign(calc.value)

\* the rank sets of five cards that are a run in a game whose highest rank is m
RecognisedRuns(m) ==
  {{1, 2, 3, 4, 5}, {2, 3, 4, 5, 6}}
    \cup {start..(start + 4) : start \in 3..(m - 4)}
    \cup {((m - 3)..m) \cup {1}}

\* the category of a selection: the first that applies, 0 when none does; a
\* run is five ranks the evaluator's list of runs holds
Category(cards) ==
  LET n == Len(cards)
      ranks == {cards[i].number : i \in 1..n}
      times(r) == Cardinality({i \in 1..n : cards[i].number = r})
      flush == Cardinality({cards[i].symbol : i \in 1..n}) = 1
      run == n = 5 /\ ranks \in possibleStraights(15)
  IN CASE n = 1 -> SINGLE
       [] n = 2 -> IF Cardinality(ranks) = 1 THEN PAIR ELSE 0
       [] n = 3 -> IF Cardinality(ranks) = 1 THEN TRIPLE ELSE 0
       [] n = 5 ->
            IF flush /\ run THEN STRAIGHT_FLUSH
            ELSE IF \E r \in ranks : times(r) = 4 THEN FOUR_KIND
            ELSE IF \E r, q \in ranks : times(r) = 3 /\ times(q) = 2 THEN FULL_HOUSE
            ELSE IF flush THEN FLUSH
            ELSE IF run THEN STRAIGHT
            ELSE 0
       [] OTHER -> 0

C18_RunsOfTheGame ==
  (calc.fn = "analyzeHand" /\ calc.done /\ Len(calc.cards1) = 5) =>
    LET ranks == {calc.cards1[i].number : i \in 1..5}
    IN (calc.hand1.rank \in {STRAIGHT, STRAIGHT_FLUSH})
         <=> (ranks \in RecognisedRuns(maxRank(calc.playerCount)))

\* the penalty of a hand: its card count times 2 to the number of its rank-2 cards
HandPenalty(cards) ==
  Len(cards) * 2 ^ Cardinality({k \in 1..Len(cards) : cards[k].number = 2})

\* C19: at a round end every active seat other than the winner loses its card
\* count times 2 to the number of rank-2 cards it holds, the winner gains the
\* sum of these amounts, and a departed seat keeps its score and adds nothing
\* to the winner's gain
C19_Settlement ==
  [][(room.gameState = "playing" /\ room'.gameState = "finished") =>
       LET w == room'.winner
           losers == {i \in ActiveSeats(room) : i # w}
           due == [i \in Seats |->
                     IF i \in losers THEN HandPenalty(room.players[i].cards) ELSE 0]
       IN /\ w \in ActiveSeats(room)
          /\ \A i \in losers : room'.scores[i] = room.scores[i] - due[i]
          /\ room'.scores[w] = room.scores[w] + SumSeq(due)
          /\ \A i \in Seats \ ActiveSeats(room) : room'.scores[i] = room.scores[i]]_vars

\* a first round ended after a seat left with cards in its hand: the departed
\* seat still has 100, a loser holding a rank-2 card was charged the doubled
\* amount, and the winner has 100 and the active losers' penalties
C19_Witness ==
  /\ room.gameState = "finished"
  /\ room.round = 2
  /\ \E i \in Seats : /\ room.players[i].hasLeft
                      /\ HandPenalty(room.players[i].cards) > 0
                      /\ room.scores[i] = 100
  /\ \E i \in ActiveSeats(room) :
       /\ i # room.winner
       /\ HandPenalty(room.players[i].cards) > Len(room.players[i].cards)
       /\ room.scores[i] = 100 - HandPenalty(room.players[i].cards)
  /\ room.scores[room.winner] =
       100 + SumSeq([i \in Seats |->
                       IF i \in ActiveSeats(room) /\ i # room.winner
                         THEN HandPenalty(room.players[i].cards) ELSE 0])

\* C20: the game state moves only from waiting to playing, from playing to
\* finished and from finished to playing, and a start request received while
\* a round is playing changes nothing of the room: no hands are dealt again,
\* pile, turn and scores stay, departed seats stay departed
C20_StartOnlyWhenIdle ==
  [][/\ room'.gameState # room.gameState =>
          <<room.gameState, room'.gameState>> \in
            {<<"waiting", "playing">>, <<"playing", "finished">>, <<"finished", "playing">>}
     /\ (out'.request = "startGame" /\ room.gameState = "playing") => room' = room]_vars

\* the seat of the socket that left the registry in this step
Departed == CHOOSE i \in Seats : room.players[i].id \in registered \ registered'

\* C21: a departure (leaveRoom or disconnect) during a round only marks the
\* seat inactive: the player list and every seat index, the pile with its
\* owner, the pass counter, all hands and all scores stay, and the turn index
\* changes only when the departing seat was on turn, to the next active seat
\* in cyclic order
C21_DepartureOnlyMarks ==
  [][(/\ out'.request \in {"leaveRoom", "disconnect"}
      /\ out'.applied
      /\ room.gameState = "playing") =>
       /\ registered' # registered
       /\ Len(room'.players) = Len(room.players)
       /\ \A i \in Seats :
            /\ room'.players[i].id = room.players[i].id
            /\ room'.players[i].isAI = room.players[i].isAI
            /\ room'.players[i].cards = room.players[i].cards
            /\ room'.players[i].hasLeft = (room.players[i].hasLeft \/ i = Departed)
       /\ room'.lastPlay = room.lastPlay
       /\ room'.passCount = room.passCount
       /\ room'.scores = room.scores
       /\ room'.gameState = "playing"
       /\ room'.currentPlayer =
            IF room.currentPlayer = Departed
              THEN NextActiveSeat(room', Departed)
              ELSE room.currentPlayer]_vars

\* seat 2 left on its turn, after seat 1 played: the pile is still seat 1's
\* and the turn went on to seat 3
C21_Witness ==
  /\ room.gameState = "playing"
  /\ out.request \in {"leaveRoom", "disconnect"}
  /\ Len(room.gameLog) >= 3
  /\ room.gameLog[Len(room.gameLog)] = <<"left", 2>>
  /\ room.gameLog[Len(room.gameLog) - 1] = <<"play", 1>>
  /\ room.players[2].hasLeft
  /\ room.lastPlay.player = 1
  /\ room.currentPlayer = 3

\* the checks of the playCards handler on a submission by the seat playerIndex
PlayAccepted(r, playerIndex, selectedCards) ==
  LET hand == analyzeHand(selectedCards)
  IN /\ r.gameState = "playing"
     /\ playerIndex = r.currentPlayer
     /\ ~r.players[playerIndex].hasLeft
     /\ Len(selectedCards) > 0
     /\ hand # NoHand
     /\ r.lastPlay.hand # NoHand =>
          /\ Len(selectedCards) = Len(r.lastPlay.cards)
          /\ compareHands(hand, r.lastPlay.hand) > 0

\* the checks of the pass handler on a pass by the seat playerIndex
PassAccepted(r, playerIndex) ==
  /\ r.gameState = "playing"
  /\ playerIndex = r.currentPlayer
  /\ ~r.players[playerIndex].hasLeft
  /\ Len(r.lastPlay.cards) > 0

\* C22: every move the AI policy applies is a move of the seat on turn that
\* the playCards or pass handler would accept from a human seat in the same
\* state, and the room after it is the room that human submission would leave
\* (hands, pile, pass counter, turn, scores, game state); an AI pass has the
\* effect of a human pass, the pile clear and the lead transfer included
C22_AiMovesAsHuman ==
  [][(out'.request = "aiPlay" /\ room' # room) =>
       LET i == room.currentPlayer
           cards == room'.lastPlay.cards
       IN \/ /\ Logged("play", i)
             /\ PlayAccepted(room, i, cards)
             /\ room' = ApplyPlay(room, i, cards, analyzeHand(cards))
          \/ /\ Logged("pass", i)
             /\ PassAccepted(room, i)
             /\ room' = ApplyPass(room, i)]_vars

\* an AI seat passed last in the cycle: the pile was cleared and the lead went
\* back to the seat that had played
C22_Witness ==
  /\ out.request = "aiPlay"
  /\ out.applied
  /\ room.gameState = "playing"
  /\ Len(room.gameLog) >= 4
  /\ room.gameLog[Len(room.gameLog)][1] = "leader"
  /\ room.gameLog[Len(room.gameLog) - 1][1] = "pass"
  /\ room.players[room.gameLog[Len(room.gameLog) - 1][2]].isAI
  /\ room.lastPlay = EmptyPlay
  /\ room.passCount = 0
  /\ room.currentPlayer = room.gameLog[Len(room.gameLog)][2]

\* the seat on turn is an AI seat / a human seat that has not left
AiOnTurn ==
  room.currentPlayer \in Seats /\ room.players[room.currentPlayer].isAI
HumanOnTurn ==
  /\ room.currentPlayer \in Seats
  /\ ~room.players[room.currentPlayer].isAI
  /\ ~room.players[room.currentPlayer].hasLeft

\* the round can go on: it is finished, or an active human seat is on turn, or
\* an AI seat is on turn and a callback that will call aiPlay is scheduled
CanGoOn ==
  \/ room.gameState = "finished"
  \/ HumanOnTurn
  \/ AiTurn(room) /\ Pending > 0

\* C23: AI chaining never leaves the game stuck.  A state that is playing
\* while the seat on turn is neither an active human seat nor an AI seat with a
\* scheduled trigger stays as it is whatever timers fire, so every move made
\* for an AI seat on turn (a play, a forced or voluntary pass, with or without
\* a pile clear, before or after departures) must leave the round finished,
\* or the turn on an active human seat, or the turn on an AI seat with its
\* trigger scheduled
C23_AiChainEnds ==
  [][(/\ room.gameState = "playing"
      /\ AiOnTurn
      /\ out'.request = "aiPlay"
      /\ room' # room) => CanGoOn']_vars

\* a lead: the socket of the active seat on turn submits, on an empty pile, 1,
\* 2, 3 or 5 cards that are a recognised hand
Lead(s, selectedCards) ==
  /\ InRoom(s)
  /\ room.gameState = "playing"
  /\ findIndex(room, s) = room.currentPlayer
  /\ ~room.players[room.currentPlayer].hasLeft
  /\ Len(room.lastPlay.cards) = 0
  /\ Len(selectedCards) \in {1, 2, 3, 5}
  /\ Category(selectedCards) # 0

\* C24: on an empty pile, at the round start or after a pile clear, a
\* recognised hand of 1, 2, 3 or 5 cards submitted by the seat on turn is
\* accepted and becomes the pile, whatever pile was cleared before
C24_LeadAnySize ==
  [][(out'.request = "playCards" /\ Len(room.lastPlay.cards) = 0) =>
       \A s \in Sockets :
         \A selectedCards \in SelectionsOf(s) :
           (Lead(s, selectedCards) /\ PlayCards(s, selectedCards)) =>
             /\ out'.applied
             /\ out'.error = ""
             /\ Logged("play", room.currentPlayer)
             /\ room'.lastPlay.cards = selectedCards
             /\ room'.lastPlay.player = room.currentPlayer]_vars

\* after its pile was cleared the leader led again with a hand of another
\* size than the cleared pile
C24_Witness ==
  LET log == room.gameLog
      leader == log[Len(log)][2]
      mine == room.playerPlays[leader]
  IN /\ out.request = "playCards"
     /\ out.applied
     /\ Len(log) >= 4
     /\ log[Len(log)][1] = "play"
     /\ log[Len(log) - 1] = <<"leader", leader>>
     /\ Len(mine) >= 2
     /\ room.lastPlay.cards = mine[Len(mine)]
     /\ Len(mine[Len(mine)]) # Len(mine[Len(mine) - 1])

\* the seat of room r whose player has the given id
SeatOf(r, id) == CHOOSE k \in 1..Len(r.players) : r.players[k].id = id

\* C25: a round start sets the scores to 100 only in the first round; a later
\* round start keeps the active seats in their order, drops the departed ones,
\* and gives every continuing seat, at its new index, the score it had at the
\* end of the previous round
C25_ScoresCarried ==
  [][(out'.request = "startGame" /\ out'.applied) =>
       IF room.round = 1
         THEN \A i \in 1..Len(room'.players) : room'.scores[i] = 100
         ELSE /\ Len(room'.players) = Cardinality(ActiveSeats(room))
              /\ Len(room'.scores) = Len(room'.players)
              /\ \A i \in 1..Len(room'.players) :
                   LET old == SeatOf(room, room'.players[i].id)
                   IN /\ old \in ActiveSeats(room)
                      /\ room'.scores[i] = room.scores[old]
                      /\ \A k \in 1..(i - 1) : SeatOf(room, room'.players[k].id) < old]_vars

\* a second round was started with three of the four or five seats: the
\* second AI seat moved from seat 4 to seat 3 and took its score along, and
\* the three scores still add up to what the continuing seats had
C25_Witness ==
  /\ out.request = "startGame"
  /\ out.applied
  /\ room.round = 2
  /\ room.gameState = "playing"
  /\ Len(room.players) = 3
  /\ room.players[3].id = -2
  /\ room.scores[3] # 100
  /\ room.scores[2] # room.scores[3]
  /\ room.scores[1] + room.scores[2] + room.scores[3] = 300

\* C26: the moves the AI policy can choose for the seat on turn depend only
\* on the pile, the card counts, the seat order and that seat's own hand: in
\* the room in which every other hand is replaced, card by card, by other
\* cards, the policy has the same set of decisions
C26_AiSeesOnlyPublicState ==
  AiTurn(room) =>
    LET i == room.currentPlayer
    IN aiDecisions(Concealed(room, room.players[i].id), i) = aiDecisions(room, i)

\* an AI seat is on turn on a non-empty pile and has several plays to choose
\* from, while the other seats hold cards, one of them numbered 1
C26_Witness ==
  /\ AiTurn(room)
  /\ Len(room.lastPlay.cards) > 0
  /\ Cardinality(aiDecisions(room, room.currentPlayer)) >= 2
  /\ \A i \in Seats : Len(room.players[i].cards) > 0
  /\ \E i \in Seats \ {room.currentPlayer} :
       \E c \in Range(room.players[i].cards) : c.number = 1

\* the cards played so far in the round
PlayedCards(r) ==
  UNION {UNION {Range(r.playerPlays[i][k]) : k \in 1..Len(r.playerPlays[i])} :
           i \in 1..Len(r.players)}

\* C27: an applied play consists of distinct cards that the playing seat held
\* just before, and shrinks that hand by the number of cards played; after it
\* the hands are pairwise disjoint and hold no card that has been played
C27_PlaysFromOwnHand ==
  [][\A i \in Seats : Logged("play", i) =>
       LET selectedCards == room'.lastPlay.cards
           before == room.players[i].cards
       IN /\ \A a, b \in 1..Len(selectedCards) :
               a # b => selectedCards[a] # selectedCards[b]
          /\ Range(selectedCards) \subseteq Range(before)
          /\ Len(room'.players[i].cards) = Len(before) - Len(selectedCards)
          /\ \A j, k \in Seats :
               j # k => Range(room'.players[j].cards) \cap
                          Range(room'.players[k].cards) = {}
          /\ \A j \in Seats :
               Range(room'.players[j].cards) \cap PlayedCards(room') = {}]_vars

C29_NextActiveSeat ==
  (calc.fn = "getNextActivePlayer" /\ calc.done) =>
    LET i == room.currentPlayer
    IN /\ ActiveSeats(room) # {} =>
            /\ calc.value \in ActiveSeats(room)
            /\ calc.value = NextActiveSeat(room, i)
       /\ calc.value = i => ActiveSeats(room) \ {i} = {}

\* the call skipped seats that have left and wrapped around the last seat
C29_Witness ==
  /\ calc.fn = "getNextActivePlayer"
  /\ calc.done
  /\ room.players[(room.currentPlayer % Len(room.players)) + 1].hasLeft
  /\ room.players[Len(room.players)].hasLeft
  /\ calc.value < room.currentPlayer
  /\ room.players[room.currentPlayer].hasLeft
  /\ Cardinality(ActiveSeats(room)) >= 2

\* the seats of humans that have not left, and the seats with the host role
ActiveHumans(r) == {i \in 1..Len(r.players) : ~r.players[i].isAI /\ ~r.players[i].hasLeft}
Hosts(r) == {i \in 1..Len(r.players) : r.players[i].isHost}

\* C30: whenever the room has an active human seat, exactly one seat has the
\* host role and it is an active human seat; so the role of a departing host
\* has moved to such a seat when the departure is done
C30_HostIsActiveHuman ==
  (roomExists /\ ActiveHumans(room) # {}) =>
    /\ Cardinality(Hosts(room)) = 1
    /\ Hosts(room) \subseteq ActiveHumans(room)

\* C31: on a pile of 1, 2 or 3 cards every candidate of findPossibleAiPlays
\* is made of cards of the hand, has the pile's size and beats the pile, the
\* list runs from the weakest to the strongest, and it is empty, so that the
\* AI seat can only pass, only if no cards of the hand, of that number and in
\* any listing, beat the pile
C31_CandidatesBeatPile ==
  (AiTurn(room) /\ Len(room.lastPlay.cards) \in 1..3) =>
    LET cards == room.players[room.currentPlayer].cards
        size == Len(room.lastPlay.cards)
        possiblePlays == findPossibleAiPlays(cards, room.lastPlay)
        beats(sel) == compareHands(analyzeHand(sel), room.lastPlay.hand) > 0
    IN /\ \A k \in 1..Len(possiblePlays) :
            /\ Len(possiblePlays[k].cards) = size
            /\ Range(possiblePlays[k].cards) \subseteq Range(cards)
            /\ possiblePlays[k].hand = analyzeHand(possiblePlays[k].cards)
            /\ beats(possiblePlays[k].cards)
       /\ \A k \in 1..(Len(possiblePlays) - 1) :
            compareHands(possiblePlays[k].hand, possiblePlays[k + 1].hand) <= 0
       /\ possiblePlays = <<>> =>
            /\ aiDecisions(room, room.currentPlayer) = {PassDecision}
            /\ \A sel \in [1..size -> Range(cards)] :
                 (\A a, b \in 1..size : a # b => sel[a] # sel[b]) => ~beats(sel)

\* an AI seat is on turn on a pair or a triple and holds cards of one number
\* that do not beat it: its list is empty
C31_Witness ==
  /\ AiTurn(room)
  /\ Len(room.lastPlay.cards) \in 2..3
  /\ LET cards == room.players[room.currentPlayer].cards
     IN /\ findPossibleAiPlays(cards, room.lastPlay) = <<>>
        /\ \E a, b \in 1..Len(cards) : a # b /\ cards[a].number = cards[b].number

\* C32: between two straights or two straight flushes of a game the straight
\* type decides first (1-2-3-4-5 over 2-3-4-5-6 over the run ending in 1 over
\* the normal runs), between two normal runs the higher top rank, and then the
\* suit of the high card: the 2, else the 1, else the highest card
C32_StraightOrder ==
  LET m == maxRank(calc.playerCount)
      ranks(cards) == {cards[k].number : k \in 1..5}
      tier(cards) == IF {1, 2} \subseteq ranks(cards) THEN 4
                     ELSE IF 2 \in ranks(cards) THEN 3
                     ELSE IF 1 \in ranks(cards) THEN 2
                     ELSE 1
      top(cards) == CHOOSE r \in ranks(cards) : \A q \in ranks(cards) : q <= r
      high(cards) == LET r == IF 2 \in ranks(cards) THEN 2
                              ELSE IF 1 \in ranks(cards) THEN 1
                              ELSE top(cards)
                     IN cards[CHOOSE k \in 1..5 : cards[k].number = r]
      order(c1, c2) ==
        IF tier(c1) # tier(c2) THEN tier(c1) - tier(c2)
        ELSE IF tier(c1) = 1 /\ top(c1) # top(c2) THEN top(c1) - top(c2)
        ELSE suitOrder(high(c1).symbol) - suitOrder(high(c2).symbol)
  IN (/\ calc.fn = "compareHands"
      /\ calc.done
      /\ calc.hand1.rank \in {STRAIGHT, STRAIGHT_FLUSH}
      /\ ranks(calc.cards1) \in RecognisedRuns(m)
      /\ ranks(calc.cards2) \in RecognisedRuns(m)) =>
       Sign(calc.value) = Sign(order(calc.cards1, calc.cards2))

\* the run ending in 1 of a three-seat game, its 1 a star, was compared with
\* the normal run 5-6-7-8-9 whose 9 is a moon, and won
C32_Witness ==
  /\ calc.fn = "compareHands"
  /\ calc.done
  /\ calc.playerCount = 3
  /\ calc.hand1.rank = STRAIGHT
  /\ {calc.cards1[k].number : k \in 1..5} = {6, 7, 8, 9, 1}
  /\ {calc.cards2[k].number : k \in 1..5} = {5, 6, 7, 8, 9}
  /\ calc.cards1[1] = Card("star", 1)
  /\ calc.cards2[5] = Card("moon", 9)
  /\ calc.value > 0

\* C33: the pile always holds 0, 1, 2, 3 or 5 cards: the cards of an accepted
\* submission become the pile, so no submission of 4 cards or of more than 5
\* cards is accepted, whether the pile is empty or not; a rejected one changes
\* nothing
C33_PileSizes ==
  [][/\ Len(room.lastPlay.cards) \in {0, 1, 2, 3, 5}
     /\ Len(room'.lastPlay.cards) \in {0, 1, 2, 3, 5}
     /\ PlayApplied => Len(room'.lastPlay.cards) \in {1, 2, 3, 5}
     /\ (out'.request = "playCards" /\ out'.error # "") => room' = room]_vars

\* a human seat on turn holds six cards or more, and its submission was
\* rejected as no combination on a pile of five cards
C33_Witness ==
  /\ room.gameState = "playing"
  /\ out.request = "playCards"
  /\ out.error = "InvalidCombination"
  /\ Len(room.lastPlay.cards) = 5
  /\ ~room.players[room.currentPlayer].isAI
  /\ Len(room.players[room.currentPlayer].cards) >= 6

\* C34: the pile has no cards iff it has no owner, and iff it has no hand; the
\* owner of a non-empty pile is a seat of the room, the one whose play was
\* applied last and put these cards there; the pass counter is 0 whenever the
\* pile is empty
C34_PileConsistent ==
  LET pile == room.lastPlay
      log == room.gameLog
  IN /\ (Len(pile.cards) = 0) <=> (pile.player = 0)
     /\ (Len(pile.cards) = 0) <=> (pile.hand = NoHand)
     /\ Len(pile.cards) = 0 => room.passCount = 0
     /\ Len(pile.cards) > 0 =>
          /\ pile.player \in Seats
          /\ pile.hand = analyzeHand(pile.cards)
          /\ Len(room.playerPlays[pile.player]) > 0
          /\ room.playerPlays[pile.player][Len(room.playerPlays[pile.player])] = pile.cards
          /\ \E k \in 1..Len(log) :
               /\ log[k] = <<"play", pile.player>>
               /\ \A j \in (k + 1)..Len(log) : log[j][1] \notin {"play", "leader"}

\* a pile was cleared by a cycle of passes and the next pile, played by
\* another seat than the one before, has been passed on once
C34_Witness ==
  /\ room.gameState = "playing"
  /\ Len(room.lastPlay.cards) > 0
  /\ room.passCount = 1
  /\ \E k \in 1..Len(room.gameLog) :
       /\ room.gameLog[k][1] = "leader"
       /\ room.gameLog[k][2] # room.lastPlay.player

\* C35: while a round is playing, the pile is not empty and at least two
\* seats are active, the seat on turn is not the owner of the pile
C35_NotOnOwnPile ==
  (/\ room.gameState = "playing"
   /\ Len(room.lastPlay.cards) > 0
   /\ Cardinality(ActiveSeats(room)) >= 2) =>
    room.currentPlayer # room.lastPlay.player

\* C36: when a pass clears the pile, every seat that is active then, other
\* than the owner of the pile, has passed on that pile since it was played
C36_ClearAfterAllPassed ==
  [][(PassApplied /\ Len(room.lastPlay.cards) > 0 /\ Len(room'.lastPlay.cards) = 0) =>
       \A i \in ActiveSeats(room') \ {room.lastPlay.player} :
         \E k \in 1..Len(room'.gameLog) :
           /\ room'.gameLog[k] = <<"pass", i>>
           /\ \A j \in k..Len(room'.gameLog) : room'.gameLog[j][1] # "play"]_vars

\* C37: while the state is playing every seat holds at least one card; while the
\* state is finished the winner's hand is empty and every other seat's hand is
\* not
C37_HandsByState ==
  /\ room.gameState = "playing" =>
       \A i \in Seats : Len(room.players[i].cards) >= 1
  /\ room.gameState = "finished" =>
       /\ room.winner \in Seats
       /\ \A i \in Seats : (Len(room.players[i].cards) = 0) <=> (i = room.winner)

\* a round won by a seat while another seat, which left during the round, still
\* holds its cards
C37_Witness ==
  /\ room.gameState = "finished"
  /\ room.winner \in Seats
  /\ room.players[room.winner].cards = <<>>
  /\ \E i \in Seats : room.players[i].hasLeft /\ Len(room.players[i].cards) > 0

\* C38: between two consecutive accepted plays of a round at most (number of
\* seats - 1) passes are logged, and the seat that gets the lead after a pile
\* clear cannot pass: no pass follows a "leader" entry without a play between
\* them, and a pass is applied only on a pile that holds cards
C38_PassesBounded ==
  [][LET log == room'.gameLog
         plays == {k \in 1..Len(log) : log[k][1] = "play"}
         since == IF plays = {} THEN 0 ELSE CHOOSE k \in plays : \A j \in plays : j <= k
         passes == {k \in (since + 1)..Len(log) : log[k][1] = "pass"}
     IN /\ Cardinality(passes) <= Len(room'.players) - 1
        /\ \A k \in passes : \A j \in (since + 1)..k : log[j][1] # "leader"
        /\ PassApplied => Len(room.lastPlay.cards) > 0]_vars

\* a pile cleared by the passes of all the other seats of the table: the log
\* ends with (number of seats - 1) passes and the "leader" entry
C38_Witness ==
  LET log == room.gameLog
      n == Len(log)
      seats == Len(room.players)
  IN /\ room.gameState = "playing"
     /\ seats >= 3
     /\ n > seats
     /\ log[n][1] = "leader"
     /\ \A k \in (n - seats + 1)..(n - 1) : log[k][1] = "pass"
     /\ log[n - seats][1] = "play"
     /\ Len(room.lastPlay.cards) = 0

====
